---- MODULE Spec2Model ----
(***************************************************************************)
(* busuto::service -- the task queue (class tasks), the timer engine       *)
(* (class timer) and the worker pool (class pool) of src/src/service.hpp,  *)
(* and the permit-gated async_resolver of src/src/resolver.hpp, as state   *)
(* machines.  One step is one critical section of a caller or of a worker  *)
(* thread, or one callback run outside the lock.                           *)
(***************************************************************************)
EXTENDS Integers, Sequences, FiniteSets, TLC

\* ------------------------------------------------------------------ bounds
MaxTasks == 3      \* tasks handed to one task queue
MaxDepth == 2      \* largest depth limit passed to tasks::dispatch
MaxRaise == 1      \* callbacks that raise in one run
MaxWorkers == 2    \* largest worker count passed to pool::start
MaxTimers == 2     \* entries scheduled on one timer engine
MaxTime == 2       \* last instant of the steady clock
MaxPeriod == 1     \* longest period or delay, in clock instants
MaxAgain == 2      \* calls of shutdown() on a structure already shut down
MaxHandles == 2    \* handle_t objects of one program
MaxOwners == 3     \* owners of address or interface lists
MaxChains == 2     \* chains the system returns to one program
MaxGuards == 3     \* scoped-release guards of one program
MaxCount == 2      \* largest initial count of the wait_group or semaphore
MaxThreads == 3    \* largest count passed to parallel_func
MaxCores == 3      \* largest hardware concurrency of a machine
MaxIfaces == 2     \* entries of the interface list of a machine
MaxCallers == 2    \* threads that call tasks::dispatch concurrently
MaxMillis == 3     \* largest period or shorten passed to timer::periodic
MaxByte == 1       \* largest value of a byte of an address's storage
MaxFd == 3         \* largest descriptor: 0..2 are the standard streams
MaxCalls == 3      \* threads that call async_resolver
BUSUTO_RESOLVER_COUNT == 2  \* permits the build gives the resolver (8 unless set)

\* --------------------------------------------------------------- variables
VARIABLES
    object,        \* which service object the program constructed
    abort,         \* "none", or why std::terminate ended the process
    raised,        \* exceptions raised by callbacks so far
    handled,       \* calls of the error handler errors_ so far
    \* class tasks
    tq_running,    \* running_
    tq_tasks,      \* tasks_ (deque of task ids, front first)
    tq_thread,     \* thread_ and the position of tasks::process in it
    tq_func,       \* func: the task the worker popped, 0 when none
    tq_notified,   \* cvar_ was notified while the worker waits on it
    tq_join,       \* a shutdown() caller is inside thread_.join()
    tq_next,       \* id of the next task handed to the queue
    tq_mutex,      \* mutex_: 0 when free, else the thread that holds it
    tq_ret,        \* what the last call of dispatch() or priority() returned
    tq_down,       \* observer: calls of shutdown() that found running_ false
    tq_started,    \* observer: the tasks the worker started, in order
    tq_front,      \* observer: the tasks accepted by priority()
    tq_ahead,      \* observer: <<p, t>>, t was queued when priority() took p
    tq_cleared,    \* observer: the tasks removed by clear()
    tq_stopped,    \* observer: the tasks queued when shutdown() stopped the queue
    tq_hooks,      \* observer: runs of shutdown_ by the current worker
    tq_last,       \* observer: the last callback the current worker ran
    \* class pool
    pl_accepting,  \* accepting_
    pl_started,    \* started_
    pl_tasks,      \* tasks_ (queue of task ids, front first)
    pl_workers,    \* workers_: the position of each worker's lambda
    pl_task,       \* task: the task each worker popped, 0 when none
    pl_join,       \* a drain() caller is joining the workers
    pl_next,       \* id of the next task handed to the pool
    pl_mutex,      \* mutex_: 0 when free, else the worker that holds it
    pl_ret,        \* what the last call of dispatch() returned
    pl_runs,       \* observer: how often each task was started
    pl_done,       \* observer: the tasks that returned
    \* class timer
    tm_timers,     \* timers_ (multimap: entries in deadline order)
    tm_stop,       \* stop_
    tm_next,       \* next_
    tm_thread,     \* thread_ and the position of timer::run in it
    tm_item,       \* item: the entry the worker popped, <<>> when none
    tm_join,       \* a shutdown() caller is inside thread_.join()
    tm_now,        \* std::chrono::steady_clock::now()
    tm_lock,       \* lock_: 0 when free, else the thread that holds it
    tm_ret,        \* what the last call of cancel(), finish(), reset() or
                   \* refresh() returned
    tm_down,       \* observer: calls of shutdown() that found stop_ set
    tm_handed,     \* observer: the ids at(), once() and periodic() returned,
                   \* in call order
    tm_fired,      \* observer: how often each entry's callback was invoked
    tm_cancelled,  \* observer: the periodic entries cancel() removed, and
                   \* whether the worker had popped the entry by then
    tm_late,       \* observer: invocations of a callback after its cancel()
    \* async_resolver
    resolvers,     \* the counter of the semaphore resolvers
    rs_call,       \* each caller's position in async_resolver and its timeout
    rs_released,   \* observer: releases of the permit each call obtained
    \* class handle_t
    hd,            \* the handle_t objects: handle_, exit_, restore_, access_,
                   \* type_, and whether the object is constructed
    fd,            \* the descriptors: who owns each, its kind and open mode
    fd_log,        \* observer: the calls made on each descriptor by close()
    fd_rec,        \* observer: type_, access_ and restore_ of the Handle that
                   \* acquired each descriptor, after the acquisition
    tty,           \* the mode of the terminal: "cooked" or "raw"
    \* socket::service, socket::networks
    ls,            \* the owners: list_, and whether the object is constructed
    ch_free,       \* observer: the free calls made on each system-owned chain
    ch_next,       \* the next chain the system returns
    \* group_scope, semaphore_scope
    gd,            \* the guards: wg_ or sem_, and whether the object is
                   \* constructed
    gd_done,       \* observer: the release actions performed for the release
                   \* each guard took on at construction, -1 when it took
                   \* on none
    sy_init,       \* the count the wait_group (semaphore) was constructed with
    sy_count,      \* count_ of the wait_group, or the semaphore's counter
    \* thread::parallel_func, service::parallel
    pf_hw,         \* std::thread::hardware_concurrency() of the machine
    pf_count,      \* the count the caller passed
    pf_pc,         \* the position of the call
    pf_threads,    \* threads: the position of each thread
    pf_calls,      \* observer: invocations of func
    \* busuto::bind_address
    ba_nets,       \* the interface list of the machine
    ba_called,     \* whether bind_address has been called
    ba_id,         \* the arguments of the last call
    ba_port,
    ba_family,
    ba_multicast,
    ba_result,     \* the address the last call returned, or the error it
                   \* raised
    \* callers of tasks::dispatch
    dp,            \* the position of each caller in dispatch, and its max
    dp_over,       \* observer: a push was made onto max or more queued tasks
    \* timer::periodic, both overloads
    pd_now,        \* steady_clock::now() at the calls
    pd_period,     \* the period passed, in milliseconds
    pd_shorten,    \* the shorten passed, in milliseconds
    pd_expires,    \* the deadline each overload armed the entry with
    \* the condition variable of the timer engine
    tm_notified,   \* cond_ was notified since the worker began to wait
    tm_until,      \* the deadline of cond_.wait_until, 0 outside that wait
    \* the lifetime of the timer engine
    tm_dead,       \* "alive", "destroying" inside ~timer, then "destroyed"
    \* socket::address comparison
    ad_a,          \* the storage of the left operand
    ad_b,          \* the storage of the right operand
    ad_eq,         \* what a == b returned, "none" before the call
    ad_ne          \* what a != b returned, "none" before the call

tqVars == <<tq_running, tq_tasks, tq_thread, tq_func, tq_notified, tq_join,
            tq_next, tq_started, tq_front, tq_ahead, tq_cleared, tq_stopped,
            tq_hooks, tq_last, tq_mutex, tq_ret, tq_down>>

plVars == <<pl_accepting, pl_started, pl_tasks, pl_workers, pl_task, pl_join,
            pl_next, pl_runs, pl_done, pl_mutex, pl_ret>>

tmVars == <<tm_timers, tm_stop, tm_next, tm_thread, tm_item, tm_join, tm_now,
            tm_fired, tm_cancelled, tm_late, tm_lock, tm_ret, tm_handed,
            tm_down>>

rsVars == <<resolvers, rs_call, rs_released>>

hdVars == <<hd, fd, fd_log, fd_rec, tty>>

lsVars == <<ls, ch_free, ch_next>>

gdVars == <<gd, gd_done, sy_init, sy_count>>

pfVars == <<pf_hw, pf_count, pf_pc, pf_threads, pf_calls>>

baVars == <<ba_nets, ba_called, ba_id, ba_port, ba_family, ba_multicast,
            ba_result>>

dpVars == <<dp, dp_over>>

pdVars == <<pd_now, pd_period, pd_shorten, pd_expires>>

wkVars == <<tm_notified, tm_until>>

dtVars == <<tm_dead>>

adVars == <<ad_a, ad_b, ad_eq, ad_ne>>

vars == <<object, abort, raised, handled, tqVars, plVars, tmVars, rsVars,
         hdVars,
         lsVars,
         gdVars,
         pfVars,
         baVars,
         dpVars,
         pdVars,
         wkVars,
         dtVars,
         adVars>>

\* ----------------------------------------------------------------- helpers
Range(s) == {s[i] : i \in 1..Len(s)}

Index(s, x) == CHOOSE i \in 1..Len(s) : s[i] = x

\* a push_back that inserts at the front
PushBack_Front(q, t) == <<t>> \o q

\* std::deque::push_back, std::queue::push
PushBack(q, t) == Append(q, t)

\* a push_front that inserts at the back
PushFront_Back(q, t) == Append(q, t)

\* std::deque::push_front
PushFront(q, t) == <<t>> \o q

\* std::deque::front / pop_front, std::queue::front / pop

Front(q) == Head(q)

PopFront(q) == Tail(q)

\* a worker loop without the catch clause
CatchesException_None == FALSE

\* catch (const std::exception& e) around func() and task(): it takes what
\* a callback raises, a std::exception (the type error_t is declared over)
CatchesException == TRUE

\* a worker that keeps the mutex while it runs the callback
Unlocks_Never(thread) == thread

\* lock.unlock() before func() / task(): the holder of the mutex afterwards
Unlocks(thread) == 0

\* the program runs this structure and std::terminate was not called
Live(structure) == object = structure /\ abort = "none"

\* ============================================================== class tasks
TasksInit ==
    /\ tq_running = FALSE
    /\ tq_tasks = <<>>
    /\ tq_thread = "none"
    /\ tq_func = 0
    /\ tq_notified = FALSE
    /\ tq_join = FALSE
    /\ tq_next = 1
    /\ tq_started = <<>>
    /\ tq_front = {}
    /\ tq_ahead = {}
    /\ tq_cleared = {}
    /\ tq_stopped = {}
    /\ tq_hooks = 0
    /\ tq_last = "none"
    /\ tq_mutex = 0
    /\ tq_ret = "none"
    /\ tq_down = 0

\* a notification that reaches no thread
Notify_Lost == tq_notified' = FALSE

\* cvar_.notify_one() / notify_all(): wakes the worker if it waits
Notify == tq_notified' = (tq_thread = "wait")

\* tasks::startup
TasksStartup ==
    /\ Live("tasks")
    /\ tq_mutex = 0
    /\ ~tq_running
    /\ IF tq_thread # "none"
       THEN \* thread_ = std::thread(...) over a joinable thread
            /\ abort' = "joinable thread assigned"
            /\ UNCHANGED <<raised, handled, tqVars>>
       ELSE /\ tq_running' = TRUE
            /\ tq_thread' = "top"
            /\ tq_hooks' = 0
            /\ tq_last' = "none"
            /\ UNCHANGED <<abort, raised, handled, tq_tasks, tq_func,
                           tq_notified, tq_join, tq_next, tq_started,
                           tq_front, tq_ahead, tq_cleared, tq_stopped,
                           tq_mutex, tq_ret>>
    /\ UNCHANGED <<object, adVars, dtVars, wkVars, pdVars, dpVars, baVars, pfVars, gdVars, lsVars, hdVars, tq_down, rsVars, plVars, tmVars>>

\* a dispatch that does not look at running_
DispatchAccepts_Stopped(max) == ~(max # 0 /\ Len(tq_tasks) >= max)

\* a dispatch that does not look at the depth limit
DispatchAccepts_NoLimit(max) == tq_running

\* tasks::dispatch(task, max) when it returns true
DispatchAccepts(max) ==
    /\ tq_running
    /\ ~(max # 0 /\ Len(tq_tasks) >= max)

TasksDispatch(max) ==
    /\ Live("tasks")
    /\ tq_mutex = 0
    /\ tq_next <= MaxTasks
    /\ DispatchAccepts(max)
    /\ tq_tasks' = PushBack(tq_tasks, tq_next)
    /\ tq_next' = tq_next + 1
    /\ Notify
    /\ tq_ret' = "true"
    /\ UNCHANGED <<object, adVars, dtVars, wkVars, pdVars, dpVars, baVars, pfVars, gdVars, lsVars, hdVars, tq_down, rsVars, plVars, tmVars, tq_mutex,
                   abort, raised, handled, tq_running, tq_thread,
                   tq_func, tq_join, tq_started, tq_front, tq_ahead,
                   tq_cleared, tq_stopped, tq_hooks, tq_last>>

\* tasks::dispatch(task, max) when it returns false: the queue does not run,
\* or max tasks are queued
TasksDispatchRefused(max) ==
    /\ Live("tasks")
    /\ tq_mutex = 0
    /\ ~DispatchAccepts(max)
    /\ tq_ret' = "false"
    /\ UNCHANGED <<object, adVars, dtVars, wkVars, pdVars, dpVars, baVars, pfVars, gdVars, lsVars, hdVars, tq_down, rsVars, plVars, tmVars, tq_mutex,
                   abort, raised, handled, tq_running, tq_tasks, tq_thread,
                   tq_func, tq_notified, tq_join, tq_next, tq_started,
                   tq_front, tq_ahead, tq_cleared, tq_stopped, tq_hooks,
                   tq_last>>

\* tasks::priority(task) when it returns true
TasksPriority ==
    /\ Live("tasks")
    /\ tq_mutex = 0
    /\ tq_next <= MaxTasks
    /\ tq_running
    /\ tq_tasks' = PushFront(tq_tasks, tq_next)
    /\ tq_next' = tq_next + 1
    /\ tq_front' = tq_front \cup {tq_next}
    /\ tq_ahead' = tq_ahead \cup {<<tq_next, t>> : t \in Range(tq_tasks)}
    /\ Notify
    /\ tq_ret' = "true"
    /\ UNCHANGED <<object, adVars, dtVars, wkVars, pdVars, dpVars, baVars, pfVars, gdVars, lsVars, hdVars, tq_down, rsVars, plVars, tmVars, tq_mutex,
                   abort, raised, handled, tq_running, tq_thread,
                   tq_func, tq_join, tq_started, tq_cleared, tq_stopped,
                   tq_hooks, tq_last>>

\* tasks::priority(task) when it returns false: the queue does not run
TasksPriorityRefused ==
    /\ Live("tasks")
    /\ tq_mutex = 0
    /\ ~tq_running
    /\ tq_ret' = "false"
    /\ UNCHANGED <<object, adVars, dtVars, wkVars, pdVars, dpVars, baVars, pfVars, gdVars, lsVars, hdVars, tq_down, rsVars, plVars, tmVars, tq_mutex,
                   abort, raised, handled, tq_running, tq_tasks, tq_thread,
                   tq_func, tq_notified, tq_join, tq_next, tq_started,
                   tq_front, tq_ahead, tq_cleared, tq_stopped, tq_hooks,
                   tq_last>>

\* tasks::clear
TasksClear ==
    /\ Live("tasks")
    /\ tq_mutex = 0
    /\ tq_tasks # <<>>
    /\ tq_tasks' = <<>>
    /\ tq_cleared' = tq_cleared \cup Range(tq_tasks)
    /\ UNCHANGED <<object, adVars, dtVars, wkVars, pdVars, dpVars, baVars, pfVars, gdVars, lsVars, hdVars, tq_down, rsVars, plVars, tmVars, tq_ret, tq_mutex,
                   abort, raised, handled, tq_running, tq_thread,
                   tq_func, tq_notified, tq_join, tq_next, tq_started,
                   tq_front, tq_ahead, tq_stopped, tq_hooks, tq_last>>

\* tasks::shutdown up to thread_.join(), when it finds the queue running
TasksShutdown ==
    /\ Live("tasks")
    /\ tq_mutex = 0
    /\ tq_running
    /\ tq_running' = FALSE
    /\ Notify
    /\ tq_join' = (tq_thread # "none")
    /\ tq_stopped' = tq_stopped \cup Range(tq_tasks)
    /\ UNCHANGED <<object, adVars, dtVars, wkVars, pdVars, dpVars, baVars, pfVars, gdVars, lsVars, hdVars, tq_down, rsVars, plVars, tmVars, tq_ret, tq_mutex,
                   abort, raised, handled, tq_tasks, tq_thread,
                   tq_func, tq_next, tq_started, tq_front, tq_ahead,
                   tq_cleared, tq_hooks, tq_last>>

\* tasks::shutdown when running_ is false: if (!running_) return
TasksShutdownAgain ==
    /\ Live("tasks")
    /\ tq_mutex = 0
    /\ ~tq_running
    /\ tq_down < MaxAgain
    /\ tq_down' = tq_down + 1
    /\ UNCHANGED <<object, adVars, dtVars, wkVars, pdVars, dpVars, baVars, pfVars, gdVars, lsVars, hdVars, rsVars, plVars, tmVars, abort, raised, handled,
                   tq_running, tq_tasks, tq_thread, tq_func, tq_notified,
                   tq_join, tq_next, tq_started, tq_front, tq_ahead,
                   tq_cleared, tq_stopped, tq_hooks, tq_last, tq_mutex,
                   tq_ret>>

\* a shutdown that does not wait for the thread
JoinReturns_Early(thread) == TRUE

\* thread_.join() returns once the worker's thread function has returned
JoinReturns(thread) == thread = "exited"

TasksJoin ==
    /\ Live("tasks")
    /\ tq_join
    /\ JoinReturns(tq_thread)
    /\ tq_join' = FALSE
    /\ tq_thread' = IF tq_thread = "exited" THEN "none" ELSE tq_thread
    /\ UNCHANGED <<object, adVars, dtVars, wkVars, pdVars, dpVars, baVars, pfVars, gdVars, lsVars, hdVars, tq_down, rsVars, plVars, tmVars, tq_ret, tq_mutex,
                   abort, raised, handled, tq_running, tq_tasks,
                   tq_func, tq_notified, tq_next, tq_started, tq_front,
                   tq_ahead, tq_cleared, tq_stopped, tq_hooks, tq_last>>

\* tasks::process: the pop inside the try block, lock.unlock(), then func()
\* starts
ProcessTake ==
    /\ tq_mutex' = Unlocks(1)
    /\ tq_func' = Front(tq_tasks)
    /\ tq_tasks' = PopFront(tq_tasks)
    /\ tq_started' = Append(tq_started, Front(tq_tasks))
    /\ tq_thread' = "run"
    /\ tq_last' = "task"
    /\ tq_notified' = FALSE

\* tasks::process from the top of the loop to the wait or the pop
ProcessTop ==
    /\ Live("tasks")
    /\ tq_thread = "top"
    /\ tq_mutex = 0
    /\ IF ~tq_running
       THEN /\ tq_thread' = "hook"
            /\ tq_mutex' = 0
            /\ UNCHANGED <<tq_tasks, tq_func, tq_started, tq_last, tq_notified>>
       ELSE IF tq_tasks = <<>>
       THEN /\ tq_thread' = "wait"
            /\ tq_mutex' = 0
            /\ tq_notified' = FALSE
            /\ UNCHANGED <<tq_tasks, tq_func, tq_started, tq_last>>
       ELSE ProcessTake
    /\ UNCHANGED <<object, adVars, dtVars, wkVars, pdVars, dpVars, baVars, pfVars, gdVars, lsVars, hdVars, tq_down, rsVars, plVars, tmVars, tq_ret,
                   abort, raised, handled, tq_running, tq_join,
                   tq_next, tq_front, tq_ahead, tq_cleared, tq_stopped,
                   tq_hooks>>

\* tasks::process after cvar_.wait_for returns (notified, timed out or
\* spuriously): running_ is not read again before the pop
ProcessWake ==
    /\ Live("tasks")
    /\ tq_thread = "wait"
    /\ tq_mutex = 0
    /\ IF tq_tasks = <<>>
       THEN /\ tq_thread' = "top"
            /\ tq_mutex' = 0
            /\ tq_notified' = FALSE
            /\ UNCHANGED <<tq_tasks, tq_func, tq_started, tq_last>>
       ELSE ProcessTake
    /\ UNCHANGED <<object, adVars, dtVars, wkVars, pdVars, dpVars, baVars, pfVars, gdVars, lsVars, hdVars, tq_down, rsVars, plVars, tmVars, tq_ret,
                   abort, raised, handled, tq_running, tq_join,
                   tq_next, tq_front, tq_ahead, tq_cleared, tq_stopped,
                   tq_hooks>>

\* func() returns normally
ProcessReturn ==
    /\ Live("tasks")
    /\ tq_thread = "run"
    /\ tq_thread' = "top"
    /\ tq_func' = 0
    /\ UNCHANGED <<object, adVars, dtVars, wkVars, pdVars, dpVars, baVars, pfVars, gdVars, lsVars, hdVars, tq_down, rsVars, plVars, tmVars, tq_ret, tq_mutex,
                   abort, raised, handled, tq_running, tq_tasks,
                   tq_notified, tq_join, tq_next, tq_started, tq_front,
                   tq_ahead, tq_cleared, tq_stopped, tq_hooks, tq_last>>

\* func() raises: the catch clause of tasks::process takes it, or nothing does
ProcessRaise ==
    /\ Live("tasks")
    /\ tq_thread = "run"
    /\ raised < MaxRaise
    /\ raised' = raised + 1
    /\ IF CatchesException
       THEN tq_thread' = "caught" /\ abort' = abort
       ELSE tq_thread' = "run" /\ abort' = "uncaught exception"
    /\ UNCHANGED <<object, adVars, dtVars, wkVars, pdVars, dpVars, baVars, pfVars, gdVars, lsVars, hdVars, tq_down, rsVars, plVars, tmVars, tq_ret, tq_mutex,
                   handled, tq_running, tq_tasks, tq_func,
                   tq_notified, tq_join, tq_next, tq_started, tq_front,
                   tq_ahead, tq_cleared, tq_stopped, tq_hooks, tq_last>>

\* errors_(e) in the catch clause, then the loop goes on
ProcessCatch ==
    /\ Live("tasks")
    /\ tq_thread = "caught"
    /\ handled' = handled + 1
    /\ tq_thread' = "top"
    /\ tq_func' = 0
    /\ UNCHANGED <<object, adVars, dtVars, wkVars, pdVars, dpVars, baVars, pfVars, gdVars, lsVars, hdVars, tq_down, rsVars, plVars, tmVars, tq_ret, tq_mutex,
                   abort, raised, tq_running, tq_tasks,
                   tq_notified, tq_join, tq_next, tq_started, tq_front,
                   tq_ahead, tq_cleared, tq_stopped, tq_hooks, tq_last>>

\* shutdown_() after the loop, then the thread function returns
ProcessHook ==
    /\ Live("tasks")
    /\ tq_thread = "hook"
    /\ tq_hooks' = tq_hooks + 1
    /\ tq_last' = "hook"
    /\ tq_thread' = "exited"
    /\ UNCHANGED <<object, adVars, dtVars, wkVars, pdVars, dpVars, baVars, pfVars, gdVars, lsVars, hdVars, tq_down, rsVars, plVars, tmVars, tq_ret, tq_mutex,
                   abort, raised, handled, tq_running, tq_tasks,
                   tq_func, tq_notified, tq_join, tq_next, tq_started,
                   tq_front, tq_ahead, tq_cleared, tq_stopped>>

TasksNext ==
    \/ TasksStartup
    \/ \E max \in 0..MaxDepth : TasksDispatch(max)
    \/ \E max \in 0..MaxDepth : TasksDispatchRefused(max)
    \/ TasksPriority
    \/ TasksPriorityRefused
    \/ TasksClear
    \/ TasksShutdown
    \/ TasksJoin
    \/ ProcessTop
    \/ ProcessWake
    \/ ProcessReturn
    \/ ProcessRaise
    \/ ProcessCatch
    \/ ProcessHook

\* =============================================================== class pool
PoolInit ==
    /\ pl_accepting = FALSE
    /\ pl_started = FALSE
    /\ pl_tasks = <<>>
    /\ pl_workers = <<>>
    /\ pl_task = <<>>
    /\ pl_join = FALSE
    /\ pl_next = 1
    /\ pl_runs = [t \in 1..MaxTasks |-> 0]
    /\ pl_done = {}
    /\ pl_mutex = 0
    /\ pl_ret = "none"

\* pool::start(count, init); count == 0 stands for hardware_concurrency(),
\* at least 1
PoolStart(count) ==
    /\ Live("pool")
    /\ pl_mutex = 0
    /\ ~pl_started
    /\ pl_accepting' = TRUE
    /\ pl_started' = TRUE
    /\ pl_workers' = [w \in 1..count |-> "startup"]
    /\ pl_task' = [w \in 1..count |-> 0]
    /\ UNCHANGED <<object, adVars, dtVars, wkVars, pdVars, dpVars, baVars, pfVars, gdVars, lsVars, hdVars, rsVars, abort, raised, handled, tqVars, tmVars, pl_ret, pl_mutex, pl_tasks,
                   pl_join, pl_next, pl_runs, pl_done>>

\* a dispatch that does not look at accepting_
PoolAccepts_Always == TRUE

\* if (!accepting_) return false;
PoolAccepts == pl_accepting

\* pool::dispatch(task) when it returns true
PoolDispatch ==
    /\ Live("pool")
    /\ pl_mutex = 0
    /\ pl_next <= MaxTasks
    /\ PoolAccepts
    /\ pl_tasks' = PushBack(pl_tasks, pl_next)
    /\ pl_next' = pl_next + 1
    /\ pl_ret' = "true"
    /\ UNCHANGED <<object, adVars, dtVars, wkVars, pdVars, dpVars, baVars, pfVars, gdVars, lsVars, hdVars, rsVars, abort, raised, handled, tqVars, tmVars, pl_mutex,
                   pl_accepting, pl_started, pl_workers, pl_task, pl_join,
                   pl_runs, pl_done>>

\* pool::dispatch(task) when it returns false: the pool does not accept
PoolDispatchRefused ==
    /\ Live("pool")
    /\ pl_mutex = 0
    /\ ~PoolAccepts
    /\ pl_ret' = "false"
    /\ UNCHANGED <<object, adVars, dtVars, wkVars, pdVars, dpVars, baVars, pfVars, gdVars, lsVars, hdVars, rsVars, abort, raised, handled, tqVars, tmVars, pl_mutex,
                   pl_accepting, pl_started, pl_tasks, pl_workers, pl_task,
                   pl_join, pl_next, pl_runs, pl_done>>

\* pool::drain (and shutdown) up to the joins; one caller drains at a time
\* (two would join the same std::thread objects)
PoolDrain ==
    /\ Live("pool")
    /\ pl_mutex = 0
    /\ ~pl_join
    /\ pl_accepting' = FALSE
    /\ pl_join' = TRUE
    /\ UNCHANGED <<object, adVars, dtVars, wkVars, pdVars, dpVars, baVars, pfVars, gdVars, lsVars, hdVars, rsVars, abort, raised, handled, tqVars, tmVars, pl_ret, pl_mutex, pl_started,
                   pl_tasks, pl_workers, pl_task, pl_next, pl_runs, pl_done>>

\* pool::drain after every worker.join() returned
PoolJoin ==
    /\ Live("pool")
    /\ pl_mutex = 0
    /\ pl_join
    /\ \A w \in 1..Len(pl_workers) : JoinReturns(pl_workers[w])
    /\ pl_workers' = <<>>
    /\ pl_task' = <<>>
    /\ pl_started' = FALSE
    /\ pl_join' = FALSE
    /\ UNCHANGED <<object, adVars, dtVars, wkVars, pdVars, dpVars, baVars, pfVars, gdVars, lsVars, hdVars, rsVars, abort, raised, handled, tqVars, tmVars, pl_ret, pl_mutex,
                   pl_accepting, pl_tasks, pl_next, pl_runs, pl_done>>

\* the worker lambda: startup_()
PoolWorkerStartup(w) ==
    /\ Live("pool")
    /\ w \in 1..Len(pl_workers)
    /\ pl_workers[w] = "startup"
    /\ pl_workers' = [pl_workers EXCEPT ![w] = "wait"]
    /\ UNCHANGED <<object, adVars, dtVars, wkVars, pdVars, dpVars, baVars, pfVars, gdVars, lsVars, hdVars, rsVars, abort, raised, handled, tqVars, tmVars, pl_ret, pl_mutex,
                   pl_accepting, pl_started, pl_tasks, pl_task, pl_join,
                   pl_next, pl_runs, pl_done>>

\* the predicate of cvar_.wait(lock, ...)
PoolWakes(accepting, queue) == ~accepting \/ queue # <<>>

\* a worker that returns as soon as the pool stops accepting
PoolExits_Early(accepting, queue) == ~accepting

\* if (!accepting_ && tasks_.empty()) return;
PoolExits(accepting, queue) == ~accepting /\ queue = <<>>

\* the worker lambda from the wait to the return, or to the pop and
\* lock.unlock(); task() starts
PoolWorkerTake(w) ==
    /\ Live("pool")
    /\ w \in 1..Len(pl_workers)
    /\ pl_workers[w] = "wait"
    /\ pl_mutex = 0
    /\ PoolWakes(pl_accepting, pl_tasks)
    /\ IF PoolExits(pl_accepting, pl_tasks)
       THEN /\ pl_workers' = [pl_workers EXCEPT ![w] = "exited"]
            /\ pl_mutex' = 0
            /\ UNCHANGED <<pl_tasks, pl_task, pl_runs>>
       ELSE /\ pl_workers' = [pl_workers EXCEPT ![w] = "run"]
            /\ pl_mutex' = Unlocks(w)
            /\ pl_task' = [pl_task EXCEPT ![w] = Front(pl_tasks)]
            /\ pl_tasks' = PopFront(pl_tasks)
            /\ pl_runs' = [pl_runs EXCEPT ![Front(pl_tasks)] = @ + 1]
    /\ UNCHANGED <<object, adVars, dtVars, wkVars, pdVars, dpVars, baVars, pfVars, gdVars, lsVars, hdVars, rsVars, abort, raised, handled, tqVars, tmVars, pl_ret,
                   pl_accepting, pl_started, pl_join, pl_next, pl_done>>

\* task() returns normally
PoolWorkerReturn(w) ==
    /\ Live("pool")
    /\ w \in 1..Len(pl_workers)
    /\ pl_workers[w] = "run"
    /\ pl_workers' = [pl_workers EXCEPT ![w] = "wait"]
    /\ pl_task' = [pl_task EXCEPT ![w] = 0]
    /\ pl_done' = pl_done \cup {pl_task[w]}
    /\ UNCHANGED <<object, adVars, dtVars, wkVars, pdVars, dpVars, baVars, pfVars, gdVars, lsVars, hdVars, rsVars, abort, raised, handled, tqVars, tmVars, pl_ret, pl_mutex,
                   pl_accepting, pl_started, pl_tasks, pl_join, pl_next,
                   pl_runs>>

\* task() raises: the lambda has no try block, the exception leaves the
\* thread function and std::terminate ends the process
PoolWorkerRaise(w) ==
    /\ Live("pool")
    /\ w \in 1..Len(pl_workers)
    /\ pl_workers[w] = "run"
    /\ raised < MaxRaise
    /\ raised' = raised + 1
    /\ abort' = "uncaught exception"
    /\ UNCHANGED <<object, adVars, dtVars, wkVars, pdVars, dpVars, baVars, pfVars, gdVars, lsVars, hdVars, rsVars, handled, tqVars, tmVars, plVars>>

PoolNext ==
    \/ \E count \in 1..MaxWorkers : PoolStart(count)
    \/ PoolDispatch
    \/ PoolDispatchRefused
    \/ PoolDrain
    \/ PoolJoin
    \/ \E w \in 1..MaxWorkers : PoolWorkerStartup(w)
    \/ \E w \in 1..MaxWorkers : PoolWorkerTake(w)
    \/ \E w \in 1..MaxWorkers : PoolWorkerReturn(w)
    \/ \E w \in 1..MaxWorkers : PoolWorkerRaise(w)

\* ============================================================== class timer
TimerIds == 0..(MaxTimers - 1)

TimerInit ==
    /\ tm_timers = <<>>
    /\ tm_stop = FALSE
    /\ tm_next = 0
    /\ tm_thread = "none"
    /\ tm_item = <<>>
    /\ tm_join = FALSE
    /\ tm_now = 0
    /\ tm_fired = [i \in TimerIds |-> 0]
    /\ tm_cancelled = {}
    /\ tm_late = [i \in TimerIds |-> 0]
    /\ tm_lock = 0
    /\ tm_ret = "none"
    /\ tm_handed = <<>>
    /\ tm_down = 0
    /\ tm_notified = FALSE
    /\ tm_until = 0
    /\ tm_dead = "alive"

\* cond_.notify_all(): wakes the worker if it waits
TimerNotify == tm_notified' = (tm_thread \in {"wait", "until"})

\* the worker holds the lock and is past its wait: the wait it begins in
\* this step, if any, has not been notified
RunWaits ==
    /\ tm_notified' = FALSE
    /\ tm_until' = IF tm_thread' = "until" THEN tm_timers[1].at ELSE 0

\* an emplace that ignores the key order
Emplace_Back(m, e) == Append(m, e)

\* std::multimap::emplace: after the entries whose key is not greater
Emplace(m, e) ==
    LET k == Cardinality({i \in 1..Len(m) : m[i].at <= e.at})
    IN  SubSeq(m, 1, k) \o <<e>> \o SubSeq(m, k + 1, Len(m))

\* an erase of begin() instead of it
Erase_First(m, i) == Tail(m)

\* std::multimap::erase(it)
Erase(m, i) == SubSeq(m, 1, i - 1) \o SubSeq(m, i + 1, Len(m))

\* the first entry of timers_ with this id, 0 when there is none
Find(m, id) ==
    IF \E i \in 1..Len(m) : m[i].id = id
    THEN CHOOSE i \in 1..Len(m) :
             /\ m[i].id = id
             /\ \A j \in 1..(i - 1) : m[j].id # id
    ELSE 0

\* the steady clock advances
Tick ==
    /\ Live("timer")
    /\ tm_now < MaxTime
    /\ tm_now' = tm_now + 1
    /\ UNCHANGED <<object, adVars, dtVars, wkVars, pdVars, dpVars, baVars, pfVars, gdVars, lsVars, hdVars, tm_down, rsVars, abort, raised, handled, tqVars, plVars, tm_ret, tm_handed, tm_lock, tm_timers,
                   tm_stop, tm_next, tm_thread, tm_item, tm_join, tm_fired,
                   tm_cancelled, tm_late>>

\* timer::startup
TimerStartup ==
    /\ Live("timer")
    /\ tm_thread = "none"
    /\ tm_thread' = "startup"
    /\ UNCHANGED <<object, adVars, dtVars, wkVars, pdVars, dpVars, baVars, pfVars, gdVars, lsVars, hdVars, tm_down, rsVars, abort, raised, handled, tqVars, plVars, tm_ret, tm_handed, tm_lock, tm_timers,
                   tm_stop, tm_next, tm_item, tm_join, tm_now, tm_fired,
                   tm_cancelled, tm_late>>

\* a shutdown that sets stop_ and does not join the thread
TimerShutdown_NoJoin ==
    /\ Live("timer")
    /\ tm_lock = 0
    /\ ~tm_stop
    /\ tm_stop' = TRUE
    /\ tm_join' = FALSE
    /\ TimerNotify
    /\ UNCHANGED <<object, adVars, dtVars, tm_until, pdVars, dpVars, baVars, pfVars, gdVars, lsVars, hdVars, tm_down, rsVars, abort, raised, handled, tqVars,
                   plVars, tm_ret, tm_handed, tm_lock, tm_timers, tm_next,
                   tm_thread, tm_item, tm_now, tm_fired, tm_cancelled,
                   tm_late>>

\* timer::shutdown up to thread_.join(), when stop_ was not set
TimerShutdown ==
    /\ Live("timer")
    /\ tm_lock = 0
    /\ ~tm_stop
    /\ tm_stop' = TRUE
    /\ tm_join' = (tm_thread # "none")
    /\ TimerNotify
    /\ UNCHANGED <<object, adVars, dtVars, tm_until, pdVars, dpVars, baVars, pfVars, gdVars, lsVars, hdVars, tm_down, rsVars, abort, raised, handled, tqVars, plVars, tm_ret, tm_handed, tm_lock, tm_timers,
                   tm_next, tm_thread, tm_item, tm_now, tm_fired,
                   tm_cancelled, tm_late>>

\* timer::shutdown when stop_ is set: if (stop_) return
TimerShutdownAgain ==
    /\ Live("timer")
    /\ tm_lock = 0
    /\ tm_stop
    /\ tm_down < MaxAgain
    /\ tm_down' = tm_down + 1
    /\ UNCHANGED <<object, adVars, dtVars, wkVars, pdVars, dpVars, baVars, pfVars, gdVars, lsVars, hdVars, rsVars, abort, raised, handled, tqVars, plVars,
                   tm_timers, tm_stop, tm_next, tm_thread, tm_item, tm_join,
                   tm_now, tm_fired, tm_cancelled, tm_late, tm_lock, tm_ret,
                   tm_handed>>

\* thread_.join() in timer::shutdown returns
TimerJoin ==
    /\ Live("timer")
    /\ tm_join
    /\ JoinReturns(tm_thread)
    /\ tm_join' = FALSE
    /\ tm_thread' = IF tm_thread = "exited" THEN "none" ELSE tm_thread
    /\ UNCHANGED <<object, adVars, dtVars, wkVars, pdVars, dpVars, baVars, pfVars, gdVars, lsVars, hdVars, tm_down, rsVars, abort, raised, handled, tqVars, plVars, tm_ret, tm_handed, tm_lock, tm_timers,
                   tm_stop, tm_next, tm_item, tm_now, tm_fired, tm_cancelled, tm_late>>

\* a counter that is read and not advanced
PostIncrement_Same(next) == next

\* next_++: the value of next_ after the call took its id
PostIncrement(next) == next + 1

\* the body shared by at(), once() and periodic(): next_++, emplace; the id
\* taken is returned
Schedule(expires, period) ==
    /\ Live("timer")
    /\ tm_lock = 0
    /\ tm_next < MaxTimers
    /\ tm_timers' = Emplace(tm_timers,
                            [at |-> expires, id |-> tm_next, period |-> period])
    /\ tm_next' = PostIncrement(tm_next)
    /\ tm_handed' = Append(tm_handed, tm_next)
    /\ TimerNotify
    /\ UNCHANGED <<object, adVars, dtVars, tm_until, pdVars, dpVars, baVars, pfVars, gdVars, lsVars, hdVars, tm_down, rsVars, abort, raised, handled, tqVars, plVars, tm_ret, tm_lock, tm_stop,
                   tm_thread, tm_item, tm_join, tm_now, tm_fired,
                   tm_cancelled, tm_late>>

\* timer::at(expires, task)
TimerAt(expires) == Schedule(expires, 0)

\* timer::once(period, task)
TimerOnce(period) == Schedule(tm_now + period, 0)

\* timer::periodic(period, task, shorten)
TimerPeriodic(period, shorten) == Schedule(tm_now + period - shorten, period)

\* timer::cancel(tid) when it returns true
TimerCancel(tid) ==
    /\ Live("timer")
    /\ tm_lock = 0
    /\ Find(tm_timers, tid) # 0
    /\ tm_timers' = Erase(tm_timers, Find(tm_timers, tid))
    /\ tm_cancelled' =
           IF tm_timers[Find(tm_timers, tid)].period # 0
           THEN tm_cancelled \cup
                    {[id |-> tid,
                      popped |-> tm_thread = "popped" /\ tm_item[1].id = tid]}
           ELSE tm_cancelled
    /\ tm_ret' = "true"
    /\ TimerNotify
    /\ UNCHANGED <<object, adVars, dtVars, tm_until, pdVars, dpVars, baVars, pfVars, gdVars, lsVars, hdVars, tm_down, rsVars, abort, raised, handled, tqVars, plVars, tm_handed, tm_lock, tm_stop,
                   tm_next, tm_thread, tm_item, tm_join, tm_now, tm_fired,
                   tm_late>>

\* a mutation call that finds no entry and returns false
TimerRefused ==
    /\ tm_ret' = "false"
    /\ UNCHANGED <<object, adVars, dtVars, wkVars, pdVars, dpVars, baVars, pfVars, gdVars, lsVars, hdVars, tm_down, rsVars, abort, raised, handled, tqVars, plVars,
                   tm_timers, tm_stop, tm_next, tm_thread, tm_item, tm_join,
                   tm_now, tm_fired, tm_cancelled, tm_late, tm_lock, tm_handed>>

\* timer::cancel(tid) when it returns false
TimerCancelRefused(tid) ==
    /\ Live("timer")
    /\ tm_lock = 0
    /\ Find(tm_timers, tid) = 0
    /\ TimerRefused

\* timer::contains(id)
Contains(id) == \E i \in 1..Len(tm_timers) : tm_timers[i].id = id

\* timer::size()
Size == Len(tm_timers)

\* timer::repeats(tid, period) when it returns true
TimerRepeats(tid, period) ==
    /\ Live("timer")
    /\ tm_lock = 0
    /\ Find(tm_timers, tid) # 0
    /\ tm_timers' = [tm_timers EXCEPT ![Find(tm_timers, tid)].period = period]
    /\ tm_ret' = "true"
    /\ UNCHANGED <<object, adVars, dtVars, wkVars, pdVars, dpVars, baVars, pfVars, gdVars, lsVars, hdVars, tm_down, rsVars, abort, raised, handled, tqVars, plVars,
                   tm_stop, tm_next, tm_thread, tm_item, tm_join, tm_now,
                   tm_fired, tm_cancelled, tm_late, tm_lock, tm_handed>>

\* a finish that removes the entry
TimerFinish_Cancel(tid) == TimerCancel(tid)

\* timer::finish(tid) when it returns true
TimerFinish(tid) == TimerRepeats(tid, 0)

\* timer::finish(tid) when it returns false
TimerFinishRefused(tid) ==
    /\ Live("timer")
    /\ tm_lock = 0
    /\ Find(tm_timers, tid) = 0
    /\ TimerRefused

\* std::make_tuple(id, period, task) after timers_.erase(it) in reset() and
\* refresh(): id, period and task are bound to the tuple of the erased node.
\* The read finds the values still in place, or the behaviour is undefined.
ReadsErased == {"intact", "undefined"}

\* the entry is erased and emplaced again, built from the erased node
Reinsert(i, expires, period, read) ==
    IF read = "intact"
    THEN /\ tm_timers' = Emplace(Erase(tm_timers, i),
                                 [at |-> expires, id |-> tm_timers[i].id,
                                  period |-> period])
         /\ tm_ret' = "true"
         /\ abort' = abort
    ELSE /\ abort' = "read of an erased node"
         /\ UNCHANGED <<tm_timers, tm_ret>>

\* timer::reset(tid, offset, interval) when it finds the entry
TimerReset(tid, offset, interval) ==
    /\ Live("timer")
    /\ tm_lock = 0
    /\ Find(tm_timers, tid) # 0
    /\ LET i == Find(tm_timers, tid)
       IN  \E read \in ReadsErased :
               Reinsert(i, tm_now + offset,
                        IF interval # 0 THEN interval ELSE tm_timers[i].period,
                        read)
    /\ TimerNotify
    /\ UNCHANGED <<object, adVars, dtVars, tm_until, pdVars, dpVars, baVars, pfVars, gdVars, lsVars, hdVars, tm_down, rsVars, raised, handled, tqVars, plVars,
                   tm_stop, tm_next, tm_thread, tm_item, tm_join, tm_now,
                   tm_fired, tm_cancelled, tm_late, tm_lock, tm_handed>>

\* timer::reset(tid, offset, interval) when it returns false
TimerResetRefused(tid) ==
    /\ Live("timer")
    /\ tm_lock = 0
    /\ Find(tm_timers, tid) = 0
    /\ TimerRefused

\* timer::refresh(tid) when it finds the entry periodic: the entry is erased,
\* and emplaced again at now + period when its deadline has not passed;
\* result is true either way
TimerRefresh(tid) ==
    /\ Live("timer")
    /\ tm_lock = 0
    /\ Find(tm_timers, tid) # 0
    /\ tm_timers[Find(tm_timers, tid)].period # 0
    /\ LET i == Find(tm_timers, tid)
       IN  IF tm_timers[i].at > tm_now
           THEN \E read \in ReadsErased :
                    Reinsert(i, tm_now + tm_timers[i].period,
                             tm_timers[i].period, read)
           ELSE /\ tm_timers' = Erase(tm_timers, i)
                /\ tm_ret' = "true"
                /\ abort' = abort
    /\ TimerNotify
    /\ UNCHANGED <<object, adVars, dtVars, tm_until, pdVars, dpVars, baVars, pfVars, gdVars, lsVars, hdVars, tm_down, rsVars, raised, handled, tqVars, plVars,
                   tm_stop, tm_next, tm_thread, tm_item, tm_join, tm_now,
                   tm_fired, tm_cancelled, tm_late, tm_lock, tm_handed>>

\* timer::refresh(tid) when it returns false: no entry, or a one-shot entry
TimerRefreshRefused(tid) ==
    /\ Live("timer")
    /\ tm_lock = 0
    /\ IF Find(tm_timers, tid) = 0
       THEN TRUE
       ELSE tm_timers[Find(tm_timers, tid)].period = 0
    /\ TimerRefused

\* timer::clear
TimerClear ==
    /\ Live("timer")
    /\ tm_lock = 0
    /\ tm_timers # <<>>
    /\ tm_timers' = <<>>
    /\ UNCHANGED <<object, adVars, dtVars, wkVars, pdVars, dpVars, baVars, pfVars, gdVars, lsVars, hdVars, tm_down, rsVars, abort, raised, handled, tqVars, plVars, tm_ret, tm_handed, tm_lock, tm_stop,
                   tm_next, tm_thread, tm_item, tm_join, tm_now, tm_fired,
                   tm_cancelled, tm_late>>

\* timer::run: startup_()
RunStartup ==
    /\ Live("timer")
    /\ tm_thread = "startup"
    /\ tm_thread' = "top"
    /\ UNCHANGED <<object, adVars, dtVars, wkVars, pdVars, dpVars, baVars, pfVars, gdVars, lsVars, hdVars, tm_down, rsVars, abort, raised, handled, tqVars, plVars, tm_ret, tm_handed, tm_lock, tm_timers,
                   tm_stop, tm_next, tm_item, tm_join, tm_now, tm_fired,
                   tm_cancelled, tm_late>>

\* a re-arm from the current time
Rearm_Now(expires, period, now) == now + period

\* the deadline a periodic entry is re-inserted with: expires += period
Rearm(expires, period, now) == expires + period

\* timer::run: the entry at timers_.begin() is due; erase it, re-insert it
\* when periodic, unlock
RunPop ==
    LET item == tm_timers[1]
        rest == Erase(tm_timers, 1)
    IN  /\ tm_item' = <<item>>
        /\ tm_timers' =
               IF item.period # 0
               THEN Emplace(rest, [item EXCEPT
                                   !.at = Rearm(item.at, item.period, tm_now)])
               ELSE rest
        /\ tm_thread' = "popped"
        /\ tm_lock' = Unlocks(1)

\* a scan that pops the first entry without comparing its deadline with now
RunScan_NoTest ==
    IF tm_stop
    THEN tm_thread' = "exited" /\ tm_lock' = 0 /\ UNCHANGED <<tm_timers, tm_item>>
    ELSE IF tm_timers = <<>>
    THEN tm_thread' = "top" /\ tm_lock' = 0 /\ UNCHANGED <<tm_timers, tm_item>>
    ELSE RunPop

\* timer::run from "if (stop_) break" to the unlock or the timed wait
RunScan ==
    IF tm_stop
    THEN tm_thread' = "exited" /\ tm_lock' = 0 /\ UNCHANGED <<tm_timers, tm_item>>
    ELSE IF tm_timers = <<>>
    THEN tm_thread' = "top" /\ tm_lock' = 0 /\ UNCHANGED <<tm_timers, tm_item>>
    ELSE IF tm_timers[1].at <= tm_now
    THEN RunPop
    ELSE tm_thread' = "until" /\ tm_lock' = 0 /\ UNCHANGED <<tm_timers, tm_item>>

\* timer::run from the top of the loop
RunTop ==
    /\ Live("timer")
    /\ tm_thread = "top"
    /\ tm_lock = 0
    /\ IF ~tm_stop /\ tm_timers = <<>>
       THEN tm_thread' = "wait" /\ tm_lock' = 0 /\ UNCHANGED <<tm_timers, tm_item>>
       ELSE RunScan
    /\ RunWaits
    /\ UNCHANGED <<object, adVars, dtVars, pdVars, dpVars, baVars, pfVars, gdVars, lsVars, hdVars, tm_down, rsVars, abort, raised, handled, tqVars, plVars, tm_ret, tm_handed, tm_stop,
                   tm_next, tm_join, tm_now, tm_fired, tm_cancelled, tm_late>>

\* timer::run after cond_.wait(lock) returns
RunWake ==
    /\ Live("timer")
    /\ tm_thread = "wait"
    /\ tm_lock = 0
    /\ RunScan
    /\ RunWaits
    /\ UNCHANGED <<object, adVars, dtVars, pdVars, dpVars, baVars, pfVars, gdVars, lsVars, hdVars, tm_down, rsVars, abort, raised, handled, tqVars, plVars, tm_ret, tm_handed, tm_stop,
                   tm_next, tm_join, tm_now, tm_fired, tm_cancelled, tm_late>>

\* timer::run after cond_.wait_until(lock, expires) returns
RunWakeUntil ==
    /\ Live("timer")
    /\ tm_thread = "until"
    /\ tm_lock = 0
    /\ tm_thread' = "top"
    /\ RunWaits
    /\ UNCHANGED <<object, adVars, dtVars, pdVars, dpVars, baVars, pfVars, gdVars, lsVars, hdVars, tm_down, rsVars, abort, raised, handled, tqVars, plVars, tm_ret, tm_handed, tm_lock, tm_timers,
                   tm_stop, tm_next, tm_item, tm_join, tm_now, tm_fired,
                   tm_cancelled, tm_late>>

\* timer::run: task() is invoked, outside the lock
RunInvoke ==
    /\ Live("timer")
    /\ tm_thread = "popped"
    /\ tm_thread' = "call"
    /\ tm_fired' = [tm_fired EXCEPT ![tm_item[1].id] = @ + 1]
    /\ tm_late' = IF \E c \in tm_cancelled : c.id = tm_item[1].id
                  THEN [tm_late EXCEPT ![tm_item[1].id] = @ + 1]
                  ELSE tm_late
    /\ UNCHANGED <<object, adVars, dtVars, wkVars, pdVars, dpVars, baVars, pfVars, gdVars, lsVars, hdVars, tm_down, rsVars, abort, raised, handled, tqVars, plVars, tm_ret, tm_handed, tm_lock, tm_timers,
                   tm_stop, tm_next, tm_item, tm_join, tm_now, tm_cancelled>>

\* task() returns normally
RunReturn ==
    /\ Live("timer")
    /\ tm_thread = "call"
    /\ tm_thread' = "top"
    /\ tm_item' = <<>>
    /\ UNCHANGED <<object, adVars, dtVars, wkVars, pdVars, dpVars, baVars, pfVars, gdVars, lsVars, hdVars, tm_down, rsVars, abort, raised, handled, tqVars, plVars, tm_ret, tm_handed, tm_lock, tm_timers,
                   tm_stop, tm_next, tm_join, tm_now, tm_fired, tm_cancelled, tm_late>>

\* task() raises: the catch clause of timer::run takes it, or nothing does
RunRaise ==
    /\ Live("timer")
    /\ tm_thread = "call"
    /\ raised < MaxRaise
    /\ raised' = raised + 1
    /\ IF CatchesException
       THEN tm_thread' = "caught" /\ abort' = abort
       ELSE tm_thread' = "call" /\ abort' = "uncaught exception"
    /\ UNCHANGED <<object, adVars, dtVars, wkVars, pdVars, dpVars, baVars, pfVars, gdVars, lsVars, hdVars, tm_down, rsVars, handled, tqVars, plVars, tm_ret, tm_handed, tm_lock, tm_timers, tm_stop,
                   tm_next, tm_item, tm_join, tm_now, tm_fired, tm_cancelled, tm_late>>

\* errors_(e) in the catch clause, then continue
RunCatch ==
    /\ Live("timer")
    /\ tm_thread = "caught"
    /\ handled' = handled + 1
    /\ tm_thread' = "top"
    /\ tm_item' = <<>>
    /\ UNCHANGED <<object, adVars, dtVars, wkVars, pdVars, dpVars, baVars, pfVars, gdVars, lsVars, hdVars, tm_down, rsVars, abort, raised, tqVars, plVars, tm_ret, tm_handed, tm_lock, tm_timers, tm_stop,
                   tm_next, tm_join, tm_now, tm_fired, tm_cancelled, tm_late>>

TimerNext ==
    \/ Tick
    \/ TimerStartup
    \/ TimerShutdown
    \/ TimerJoin
    \/ \E expires \in 0..MaxTime : TimerAt(expires)
    \/ \E period \in 0..MaxPeriod : TimerOnce(period)
    \/ \E period \in 1..MaxPeriod : \E shorten \in 0..period :
           TimerPeriodic(period, shorten)
    \/ \E tid \in TimerIds : TimerCancel(tid)
    \/ TimerClear
    \/ RunStartup
    \/ RunTop
    \/ RunWake
    \/ RunWakeUntil
    \/ RunInvoke
    \/ RunReturn
    \/ RunRaise
    \/ RunCatch

\* the timer engine with the calls that change an entry in place: entries
\* of one period, no shutdown and no raising callback
TimerOpsNext ==
    \/ Tick
    \/ TimerStartup
    \/ \E expires \in {MaxTime} : TimerAt(expires)
    \/ \E period \in {0} : TimerOnce(period)
    \/ \E period \in {MaxPeriod} : TimerPeriodic(period, 0)
    \/ \E tid \in TimerIds : TimerCancel(tid)
    \/ \E tid \in TimerIds : TimerCancelRefused(tid)
    \/ \E tid \in TimerIds : \E offset \in {MaxPeriod} :
           \E interval \in {0, MaxPeriod} : TimerReset(tid, offset, interval)
    \/ \E tid \in TimerIds : TimerResetRefused(tid)
    \/ \E tid \in TimerIds : TimerRefresh(tid)
    \/ \E tid \in TimerIds : TimerRefreshRefused(tid)
    \/ TimerClear
    \/ RunStartup
    \/ RunTop
    \/ RunWake
    \/ RunWakeUntil
    \/ RunInvoke
    \/ RunReturn

\* the timer engine with calls of shutdown(): entries of one period and
\* no cancel
TimerDownNext ==
    \/ Tick
    \/ TimerStartup
    \/ TimerShutdown
    \/ TimerShutdownAgain
    \/ TimerJoin
    \/ \E period \in {0} : TimerOnce(period)
    \/ \E period \in {MaxPeriod} : TimerPeriodic(period, 0)
    \/ RunStartup
    \/ RunTop
    \/ RunWake
    \/ RunWakeUntil
    \/ RunInvoke
    \/ RunReturn
    \/ RunRaise
    \/ RunCatch

\* the worker thread runs whenever it can, a worker waiting on cond_ wakes
\* once stop_ is set (cond_.notify_all() in shutdown), callbacks and the
\* error handler return, and join() returns once the thread has exited
TimerDownFair ==
    /\ WF_vars(RunStartup)
    /\ WF_vars(RunTop)
    /\ WF_vars(tm_stop /\ RunWake)
    /\ WF_vars(tm_stop /\ RunWakeUntil)
    /\ WF_vars(RunInvoke)
    /\ WF_vars(RunReturn)
    /\ WF_vars(RunCatch)
    /\ WF_vars(TimerJoin)

\* the last instant of the clock in the runs that compare two periods
LastTime == MaxTime + MaxPeriod + 1

\* the steady clock advances, in the runs that compare two periods
TickLate ==
    /\ Live("timer")
    /\ tm_now < LastTime
    /\ tm_now' = tm_now + 1
    /\ UNCHANGED <<object, adVars, dtVars, wkVars, pdVars, dpVars, baVars, pfVars, gdVars, lsVars, hdVars, tm_down, rsVars, abort, raised, handled, tqVars,
                   plVars, tm_ret, tm_handed, tm_lock, tm_timers, tm_stop,
                   tm_next, tm_thread, tm_item, tm_join, tm_fired,
                   tm_cancelled, tm_late>>

\* the timer engine with periodic entries of different periods, all
\* scheduled at the first instant of the clock
PeriodsNext ==
    \/ TickLate
    \/ TimerStartup
    \/ \E period \in 1..(MaxPeriod + 1) :
           tm_now = 0 /\ TimerPeriodic(period, 0)
    \/ RunStartup
    \/ RunTop
    \/ RunWake
    \/ RunWakeUntil
    \/ RunInvoke
    \/ RunReturn

\* the timer engine with periodic entries and finish()
FinishNext ==
    \/ Tick
    \/ TimerStartup
    \/ \E period \in 1..MaxPeriod : TimerPeriodic(period, 0)
    \/ \E tid \in TimerIds : TimerFinish(tid)
    \/ \E tid \in TimerIds : TimerFinishRefused(tid)
    \/ RunStartup
    \/ RunTop
    \/ RunWake
    \/ RunWakeUntil
    \/ RunInvoke
    \/ RunReturn

\* the clock advances, the worker thread runs whenever it can (a wait on the
\* condition variable ends by notification, timeout or spuriously), and
\* callbacks return
FinishFair ==
    /\ WF_vars(Tick)
    /\ WF_vars(RunStartup)
    /\ WF_vars(RunTop)
    /\ WF_vars(RunWake)
    /\ WF_vars(RunWakeUntil)
    /\ WF_vars(RunInvoke)
    /\ WF_vars(RunReturn)

\* ~timer(): shutdown(), which returns at once when stop_ is set, or sets
\* stop_, notifies and joins a joinable thread_
TimerDtor ==
    /\ Live("timer")
    /\ tm_dead = "alive"
    /\ ~tm_join
    /\ tm_lock = 0
    /\ tm_dead' = "destroying"
    /\ IF tm_stop
       THEN UNCHANGED <<tm_stop, tm_join, tm_notified>>
       ELSE /\ tm_stop' = TRUE
            /\ tm_join' = (tm_thread # "none")
            /\ TimerNotify
    /\ UNCHANGED <<object, adVars, abort, raised, handled, tqVars, plVars, rsVars,
                   hdVars, lsVars, gdVars, pfVars, baVars, dpVars, pdVars,
                   tm_until, tm_timers, tm_next, tm_thread, tm_item, tm_now,
                   tm_fired, tm_cancelled, tm_late, tm_lock, tm_ret,
                   tm_handed, tm_down>>

\* ~timer() after shutdown() returned: the members are destroyed, and
\* ~thread() of a joinable thread_ calls std::terminate
TimerDtorMembers ==
    /\ Live("timer")
    /\ tm_dead = "destroying"
    /\ ~tm_join
    /\ IF tm_thread # "none"
       THEN abort' = "joinable thread destroyed" /\ tm_dead' = tm_dead
       ELSE abort' = abort /\ tm_dead' = "destroyed"
    /\ UNCHANGED <<object, adVars, raised, handled, tqVars, plVars, tmVars, rsVars,
                   hdVars, lsVars, gdVars, pfVars, baVars, dpVars, pdVars,
                   wkVars>>

\* one thread makes the calls on a timer engine up to its destruction: no
\* call is made while another is in progress
TimerIdle == tm_dead = "alive" /\ ~tm_join

DtorNext ==
    \/ TimerIdle /\ TimerStartup
    \/ TimerIdle /\ TimerShutdown
    \/ TimerIdle /\ TimerShutdownAgain
    \/ \E period \in 0..MaxPeriod : TimerIdle /\ TimerOnce(period)
    \/ TimerDtor
    \/ TimerDtorMembers
    \/ TimerJoin
    \/ Tick
    \/ RunStartup
    \/ RunTop
    \/ RunWake
    \/ RunWakeUntil
    \/ RunInvoke
    \/ RunReturn

\* =========================================================== async_resolver
Calls == 1..MaxCalls

\* resolvers(BUSUTO_RESOLVER_COUNT): every permit is free; no call was made
ResolverInit ==
    /\ resolvers = BUSUTO_RESOLVER_COUNT
    /\ rs_call = [c \in Calls |-> [pc |-> "idle", timeout |-> 0]]
    /\ rs_released = [c \in Calls |-> 0]

\* a try_acquire that always reports a permit
TryAcquire_Always(counter) == TRUE

\* counting_semaphore::try_acquire / acquire: a permit is taken when the
\* counter is positive
TryAcquire(counter) == counter > 0

\* a scope that gives no permit back
Release_Nothing(counter) == counter

\* ~semaphore_scope: sem_->release()
Release(counter) == counter + 1

\* the permit is taken and std::async starts the lookup on its own thread
Launch(c, timeout) ==
    /\ resolvers' = resolvers - 1
    /\ rs_call' = [rs_call EXCEPT ![c] = [pc |-> "lookup", timeout |-> timeout]]

\* async_resolver(name or addr, ..., timeout) up to the first point where it
\* returns the future, throws resolver_timeout or blocks in the semaphore
AsyncResolver(c, timeout) ==
    /\ Live("resolver")
    /\ rs_call[c].pc = "idle"
    /\ IF TryAcquire(resolvers)
       THEN Launch(c, timeout)
       ELSE /\ resolvers' = resolvers
            /\ rs_call' = [rs_call EXCEPT ![c] =
                   [pc |-> IF timeout < 0 THEN "acquire"
                           ELSE IF timeout = 0 THEN "timeout"
                           ELSE "acquire_for",
                    timeout |-> timeout]]
    /\ UNCHANGED <<object, adVars, dtVars, wkVars, pdVars, dpVars, baVars, pfVars, gdVars, lsVars, hdVars, abort, raised, handled, tqVars, plVars, tmVars,
                   rs_released>>

\* resolvers.acquire() or try_acquire_for() gets a permit that was released
ResolverAcquire(c) ==
    /\ Live("resolver")
    /\ rs_call[c].pc \in {"acquire", "acquire_for"}
    /\ TryAcquire(resolvers)
    /\ Launch(c, rs_call[c].timeout)
    /\ UNCHANGED <<object, adVars, dtVars, wkVars, pdVars, dpVars, baVars, pfVars, gdVars, lsVars, hdVars, abort, raised, handled, tqVars, plVars, tmVars,
                   rs_released>>

\* try_acquire_for() runs out of time: throw resolver_timeout()
ResolverExpire(c) ==
    /\ Live("resolver")
    /\ rs_call[c].pc = "acquire_for"
    /\ rs_call' = [rs_call EXCEPT ![c].pc = "timeout"]
    /\ UNCHANGED <<object, adVars, dtVars, wkVars, pdVars, dpVars, baVars, pfVars, gdVars, lsVars, hdVars, abort, raised, handled, tqVars, plVars, tmVars,
                   resolvers, rs_released>>

\* the launched lambda: socket::lookup returns a result or an empty one, then
\* the semaphore_scope is destroyed
ResolverLookup(c, found) ==
    /\ Live("resolver")
    /\ rs_call[c].pc = "lookup"
    /\ rs_call' = [rs_call EXCEPT ![c].pc = IF found THEN "resolved" ELSE "empty"]
    /\ resolvers' = Release(resolvers)
    /\ rs_released' = [rs_released EXCEPT ![c] = @ + 1]
    /\ UNCHANGED <<object, adVars, dtVars, wkVars, pdVars, dpVars, baVars, pfVars, gdVars, lsVars, hdVars, abort, raised, handled, tqVars, plVars, tmVars>>

\* the caller is done with the future or the exception and may call again
ResolverReturn(c) ==
    /\ Live("resolver")
    /\ rs_call[c].pc \in {"resolved", "empty", "timeout"}
    /\ rs_call' = [rs_call EXCEPT ![c] = [pc |-> "idle", timeout |-> 0]]
    /\ rs_released' = [rs_released EXCEPT ![c] = 0]
    /\ UNCHANGED <<object, adVars, dtVars, wkVars, pdVars, dpVars, baVars, pfVars, gdVars, lsVars, hdVars, abort, raised, handled, tqVars, plVars, tmVars,
                   resolvers>>

ResolverNext ==
    \/ \E c \in Calls : \E timeout \in {-1, 0, 1} : AsyncResolver(c, timeout)
    \/ \E c \in Calls : ResolverAcquire(c)
    \/ \E c \in Calls : ResolverExpire(c)
    \/ \E c \in Calls : \E found \in BOOLEAN : ResolverLookup(c, found)
    \/ \E c \in Calls : ResolverReturn(c)

\* ============================================================ class handle_t
Handles == 1..MaxHandles

Fds == 0..MaxFd

Kinds == {"tty", "socket", "file"}

Modes == {"O_RDONLY", "O_WRONLY", "O_RDWR"}

\* the teardown functions: the default exit_ (::close) and one of the caller
CloseFns == {"close", "fn"}

\* the member initialisers of handle_t
Members ==
    [state |-> "live", handle |-> -1, exit |-> "close", restore |-> "none",
     access |-> "O_RDWR", type |-> "DEFAULT"]

HandleInit ==
    /\ hd = [h \in Handles |-> [Members EXCEPT !.state = "none"]]
    /\ fd = [d \in Fds |-> [state |-> "free", kind |-> "file",
                            mode |-> "O_RDWR"]]
    /\ fd_log = [d \in Fds |-> <<>>]
    /\ fd_rec = [d \in Fds |-> [type |-> "none", access |-> "none",
                                restore |-> "none"]]
    /\ tty = "cooked"

\* what isatty, fstat and fcntl report for the descriptors the program opens:
\* sockets of each access mode, a terminal opened for both or for writing,
\* and a file
Opens ==
    {<<"socket", "O_RDONLY">>, <<"socket", "O_WRONLY">>,
     <<"socket", "O_RDWR">>, <<"tty", "O_RDWR">>, <<"tty", "O_WRONLY">>,
     <<"file", "O_RDWR">>}

\* the ints a caller hands to a Handle: -1 (a failed open), standard input
\* and the descriptors the system opens
Ints == {-1, 0} \cup (3..MaxFd)

\* the caller has this int to hand over, with this kind and open mode: -1, a
\* standard stream (a terminal or redirected), or the next descriptor the
\* system opens
Acquirable(d, kind, mode) ==
    \/ d = -1 /\ kind = "file" /\ mode = "O_RDWR"
    \/ /\ d \in 0..2
       /\ fd[d].state = "free"
       /\ kind \in {"tty", "file"}
       /\ mode = IF d = 0 THEN "O_RDONLY" ELSE "O_WRONLY"
    \/ /\ d \in 3..MaxFd
       /\ fd[d].state = "free"
       /\ \A e \in 3..(d - 1) : fd[e].state # "free"
       /\ <<kind, mode>> \in Opens

\* the descriptors once a Handle holds d
Held(f, d, kind, mode) ==
    IF d = -1 THEN f
    ELSE [f EXCEPT ![d] = [state |-> "held", kind |-> kind, mode |-> mode]]

\* handle_t::readable
Readable(r) == r.handle > -1 /\ r.access \in {"O_RDONLY", "O_RDWR"}

\* handle_t::access: mode is fcntl(handle_, F_GETFL) & O_ACCMODE
Access(r, mode) ==
    [r EXCEPT !.access = IF r.handle < 0 THEN "O_RDWR"
                         ELSE IF r.handle = 0 THEN "O_RDONLY"
                         ELSE IF r.handle < 3 THEN "O_WRONLY"
                         ELSE mode]

\* the first branch of handle_t::setup is taken
IsTerminal(r, kind, mode) ==
    /\ r.handle >= 0
    /\ kind = "tty"
    /\ r.handle = 0 \/ r.handle > 2
    /\ Readable(Access(r, mode))

\* handle_t::setup: the members afterwards; term is the terminal's mode,
\* which tcgetattr saves in restore_
Setup(r, kind, mode, term) ==
    IF r.handle < 0 THEN r
    ELSE IF IsTerminal(r, kind, mode)
    THEN [Access(r, mode) EXCEPT !.type = "TERMIO", !.restore = term]
    ELSE IF kind # "tty" /\ r.handle > 2
    THEN IF kind = "socket"
         THEN [Access(r, mode) EXCEPT !.type = "SOCKET"]
         ELSE Access(r, mode)
    ELSE [Access(r, mode) EXCEPT !.type = "GENERIC"]

\* handle_t::setup: the terminal's mode afterwards (reset() makes it raw)
SetupTerm(r, kind, mode, term) ==
    IF IsTerminal(r, kind, mode) THEN "raw" ELSE term

\* the how of shutdown() for an access mode
Shut(access) ==
    IF access = "O_RDWR" THEN "SHUT_RDWR"
    ELSE IF access = "O_RDONLY" THEN "SHUT_RD"
    ELSE "SHUT_WR"

\* the switch on type_ in handle_t::close: the calls made before exit_
KindStep(type, access, restore) ==
    IF type = "SOCKET" THEN <<[op |-> "shutdown", arg |-> Shut(access)]>>
    ELSE IF type = "TERMIO" THEN <<[op |-> "tcsetattr", arg |-> restore]>>
    ELSE <<>>

\* handle_t::close: the calls it makes on the descriptor, in order
CloseCalls(r) ==
    IF r.handle > -1
    THEN KindStep(r.type, r.access, r.restore)
             \o <<[op |-> "exit", arg |-> r.exit]>>
    ELSE <<>>

\* handle_t::close: the members afterwards
Closed(r) ==
    IF r.handle > -1
    THEN [r EXCEPT !.handle = -1, !.access = "O_RDWR"]
    ELSE r

\* handle_t::close: the terminal's mode afterwards; tcsetattr changes it
\* when the descriptor is a terminal
CloseTerm(r, term) ==
    IF r.handle > -1 /\ r.type = "TERMIO" /\ fd[r.handle].kind = "tty"
           /\ r.restore # "none"
    THEN r.restore
    ELSE term

\* handle_t::close: the descriptors afterwards
CloseFd(r, f) ==
    IF r.handle > -1 THEN [f EXCEPT ![r.handle].state = "torn"] ELSE f

\* handle_t::close: the calls made so far on each descriptor
CloseLog(r, log) ==
    IF r.handle > -1
    THEN [log EXCEPT ![r.handle] = @ \o CloseCalls(r)]
    ELSE log

\* what the acquiring Handle recorded about descriptor d
Recorded(rec, r) ==
    IF r.handle > -1
    THEN [rec EXCEPT ![r.handle] = [type |-> r.type, access |-> r.access,
                                    restore |-> r.restore]]
    ELSE rec

\* an exchange that leaves the source as it was
Exchange_Kept(handle) == handle

\* std::exchange(from.handle_, -1): what the source holds afterwards
Exchange(handle) == -1

\* handle_t()
HandleCtor(h) ==
    /\ Live("handle")
    /\ hd[h].state = "none"
    /\ hd' = [hd EXCEPT ![h] = Members]
    /\ UNCHANGED <<object, adVars, dtVars, wkVars, pdVars, dpVars, baVars, pfVars, gdVars, lsVars, abort, raised, handled, tqVars, plVars, tmVars,
                   rsVars, fd, fd_log, fd_rec, tty>>

\* handle_t(close_t fn)
HandleCtorFn(h, fn) ==
    /\ Live("handle")
    /\ hd[h].state = "none"
    /\ hd' = [hd EXCEPT ![h] = [Members EXCEPT !.exit = fn]]
    /\ UNCHANGED <<object, adVars, dtVars, wkVars, pdVars, dpVars, baVars, pfVars, gdVars, lsVars, abort, raised, handled, tqVars, plVars, tmVars,
                   rsVars, fd, fd_log, fd_rec, tty>>

\* handle_t(int handle): setup()
HandleCtorInt(h, d, kind, mode) ==
    /\ Live("handle")
    /\ hd[h].state = "none"
    /\ Acquirable(d, kind, mode)
    /\ LET r == Setup([Members EXCEPT !.handle = d], kind, mode, tty)
       IN  /\ hd' = [hd EXCEPT ![h] = r]
           /\ fd_rec' = Recorded(fd_rec, r)
    /\ fd' = Held(fd, d, kind, mode)
    /\ tty' = SetupTerm([Members EXCEPT !.handle = d], kind, mode, tty)
    /\ UNCHANGED <<object, adVars, dtVars, wkVars, pdVars, dpVars, baVars, pfVars, gdVars, lsVars, abort, raised, handled, tqVars, plVars, tmVars,
                   rsVars, fd_log>>

\* handle_t(int handle, close_t fn): access()
HandleCtorIntFn(h, d, fn, kind, mode) ==
    /\ Live("handle")
    /\ hd[h].state = "none"
    /\ Acquirable(d, kind, mode)
    /\ LET r == Access([Members EXCEPT !.handle = d, !.exit = fn], mode)
       IN  /\ hd' = [hd EXCEPT ![h] = r]
           /\ fd_rec' = Recorded(fd_rec, r)
    /\ fd' = Held(fd, d, kind, mode)
    /\ UNCHANGED <<object, adVars, dtVars, wkVars, pdVars, dpVars, baVars, pfVars, gdVars, lsVars, abort, raised, handled, tqVars, plVars, tmVars,
                   rsVars, fd_log, tty>>

\* handle_t(handle_t&& from): handle_ and exit_ are taken, the other members
\* have their initialisers
HandleCtorMove(h, from) ==
    /\ Live("handle")
    /\ hd[h].state = "none"
    /\ hd[from].state = "live"
    /\ hd' = [hd EXCEPT ![h] = [Members EXCEPT !.handle = hd[from].handle,
                                               !.exit = hd[from].exit],
                        ![from].handle = Exchange(hd[from].handle)]
    /\ UNCHANGED <<object, adVars, dtVars, wkVars, pdVars, dpVars, baVars, pfVars, gdVars, lsVars, abort, raised, handled, tqVars, plVars, tmVars,
                   rsVars, fd, fd_log, fd_rec, tty>>

\* operator=(int handle): close(), then setup() when type_ is not DEFAULT and
\* access() when it is
HandleAssignInt(h, d, kind, mode) ==
    /\ Live("handle")
    /\ hd[h].state = "live"
    /\ Acquirable(d, kind, mode)
    /\ LET old == hd[h]
           term == CloseTerm(old, tty)
           new == [Closed(old) EXCEPT !.handle = d]
           r == IF new.type # "DEFAULT"
                THEN Setup(new, kind, mode, term)
                ELSE Access(new, mode)
       IN  /\ hd' = [hd EXCEPT ![h] = r]
           /\ fd' = Held(CloseFd(old, fd), d, kind, mode)
           /\ fd_log' = CloseLog(old, fd_log)
           /\ fd_rec' = Recorded(fd_rec, r)
           /\ tty' = IF new.type # "DEFAULT"
                     THEN SetupTerm(new, kind, mode, term)
                     ELSE term
    /\ UNCHANGED <<object, adVars, dtVars, wkVars, pdVars, dpVars, baVars, pfVars, gdVars, lsVars, abort, raised, handled, tqVars, plVars, tmVars,
                   rsVars>>

\* operator=(handle_t&& other): nothing when this == &other; else close(),
\* then handle_ and exit_ are taken and the other members stay
HandleAssignMove(h, other) ==
    /\ Live("handle")
    /\ hd[h].state = "live"
    /\ hd[other].state = "live"
    /\ IF h = other
       THEN UNCHANGED <<hd, fd, fd_log, tty>>
       ELSE LET old == hd[h]
            IN  /\ hd' = [hd EXCEPT
                             ![h] = [Closed(old) EXCEPT
                                         !.handle = hd[other].handle,
                                         !.exit = hd[other].exit],
                             ![other].handle = Exchange(hd[other].handle)]
                /\ fd' = CloseFd(old, fd)
                /\ fd_log' = CloseLog(old, fd_log)
                /\ tty' = CloseTerm(old, tty)
    /\ UNCHANGED <<object, adVars, dtVars, wkVars, pdVars, dpVars, baVars, pfVars, gdVars, lsVars, abort, raised, handled, tqVars, plVars, tmVars,
                   rsVars, fd_rec>>

\* handle_t::release: the descriptor goes back to the caller
HandleRelease(h) ==
    /\ Live("handle")
    /\ hd[h].state = "live"
    /\ hd' = [hd EXCEPT ![h].handle = Exchange(hd[h].handle)]
    /\ fd' = IF hd[h].handle > -1
             THEN [fd EXCEPT ![hd[h].handle].state = "released"]
             ELSE fd
    /\ UNCHANGED <<object, adVars, dtVars, wkVars, pdVars, dpVars, baVars, pfVars, gdVars, lsVars, abort, raised, handled, tqVars, plVars, tmVars,
                   rsVars, fd_log, fd_rec, tty>>

\* handle_t::close
HandleClose(h) ==
    /\ Live("handle")
    /\ hd[h].state = "live"
    /\ hd' = [hd EXCEPT ![h] = Closed(hd[h])]
    /\ fd' = CloseFd(hd[h], fd)
    /\ fd_log' = CloseLog(hd[h], fd_log)
    /\ tty' = CloseTerm(hd[h], tty)
    /\ UNCHANGED <<object, adVars, dtVars, wkVars, pdVars, dpVars, baVars, pfVars, gdVars, lsVars, abort, raised, handled, tqVars, plVars, tmVars,
                   rsVars, fd_rec>>

\* ~handle_t: close(); the object and its members are gone afterwards
HandleDtor(h) ==
    /\ Live("handle")
    /\ hd[h].state = "live"
    /\ hd' = [hd EXCEPT ![h] = [Members EXCEPT !.state = "dead"]]
    /\ fd' = CloseFd(hd[h], fd)
    /\ fd_log' = CloseLog(hd[h], fd_log)
    /\ tty' = CloseTerm(hd[h], tty)
    /\ UNCHANGED <<object, adVars, dtVars, wkVars, pdVars, dpVars, baVars, pfVars, gdVars, lsVars, abort, raised, handled, tqVars, plVars, tmVars,
                   rsVars, fd_rec>>

HandleNext ==
    \/ \E h \in Handles : HandleCtor(h)
    \/ \E h \in Handles : \E fn \in CloseFns : HandleCtorFn(h, fn)
    \/ \E h \in Handles : \E d \in Ints : \E kind \in Kinds :
           \E mode \in Modes : HandleCtorInt(h, d, kind, mode)
    \/ \E h \in Handles : \E d \in Ints : \E fn \in CloseFns :
           \E kind \in Kinds : \E mode \in Modes :
               HandleCtorIntFn(h, d, fn, kind, mode)
    \/ \E h, from \in Handles : HandleCtorMove(h, from)
    \/ \E h \in Handles : \E d \in Ints : \E kind \in Kinds :
           \E mode \in Modes : HandleAssignInt(h, d, kind, mode)
    \/ \E h, other \in Handles : HandleAssignMove(h, other)
    \/ \E h \in Handles : HandleRelease(h)
    \/ \E h \in Handles : HandleClose(h)
    \/ \E h \in Handles : HandleDtor(h)

\* ============================== socket::service and socket::networks owners
Owners == 1..MaxOwners

Chains == 1..MaxChains

\* the program holds owners of one of the two classes
ListLive == object \in {"service", "networks"} /\ abort = "none"

ListInit ==
    /\ ls = [o \in Owners |-> [state |-> "none", list |-> 0]]
    /\ ch_free = [c \in Chains |-> <<>>]
    /\ ch_next = 1

\* the free call of release(): ::freeaddrinfo in service, ::freeifaddrs in
\* networks
FreeCall == IF object = "service" THEN "freeaddrinfo" ELSE "freeifaddrs"

\* release(): the free calls made so far on each chain; 0 is the null pointer
Released(free, list) ==
    IF list # 0 THEN [free EXCEPT ![list] = Append(@, FreeCall)] ELSE free

\* an exchange that leaves the source as it was
ExchangeList_Kept(list) == list

\* std::exchange(from.list_, nullptr): what the source holds afterwards
ExchangeList(list) == 0

\* service() and networks(nullptr): an owner of nothing
ListCtor(o) ==
    /\ ListLive
    /\ ls[o].state = "none"
    /\ ls' = [ls EXCEPT ![o] = [state |-> "live", list |-> 0]]
    /\ UNCHANGED <<object, adVars, dtVars, wkVars, pdVars, dpVars, baVars, pfVars, gdVars, abort, raised, handled, tqVars, plVars, tmVars,
                   rsVars, hdVars, ch_free, ch_next>>

\* service(list) with the chain getaddrinfo returned, networks() with the
\* chain getifaddrs returned
ListCtorChain(o) ==
    /\ ListLive
    /\ ls[o].state = "none"
    /\ ch_next <= MaxChains
    /\ ls' = [ls EXCEPT ![o] = [state |-> "live", list |-> ch_next]]
    /\ ch_next' = ch_next + 1
    /\ UNCHANGED <<object, adVars, dtVars, wkVars, pdVars, dpVars, baVars, pfVars, gdVars, abort, raised, handled, tqVars, plVars, tmVars,
                   rsVars, hdVars, ch_free>>

\* service(service&& from), networks(networks&& from)
ListCtorMove(o, from) ==
    /\ ListLive
    /\ ls[o].state = "none"
    /\ ls[from].state = "live"
    /\ ls' = [ls EXCEPT ![o] = [state |-> "live", list |-> ls[from].list],
                        ![from].list = ExchangeList(ls[from].list)]
    /\ UNCHANGED <<object, adVars, dtVars, wkVars, pdVars, dpVars, baVars, pfVars, gdVars, abort, raised, handled, tqVars, plVars, tmVars,
                   rsVars, hdVars, ch_free, ch_next>>

\* operator=(service&& from), operator=(networks&& from): nothing when both
\* hold the same pointer; else release(), then the chain is taken
ListAssignMove(o, from) ==
    /\ ListLive
    /\ ls[o].state = "live"
    /\ ls[from].state = "live"
    /\ IF ls[o].list = ls[from].list
       THEN UNCHANGED <<ls, ch_free>>
       ELSE /\ ch_free' = Released(ch_free, ls[o].list)
            /\ ls' = [ls EXCEPT ![o].list = ls[from].list,
                                ![from].list = ExchangeList(ls[from].list)]
    /\ UNCHANGED <<object, adVars, dtVars, wkVars, pdVars, dpVars, baVars, pfVars, gdVars, abort, raised, handled, tqVars, plVars, tmVars,
                   rsVars, hdVars, ch_next>>

\* operator=(struct addrinfo *addr), operator=(struct ifaddrs *addr), with a
\* chain the system just returned or with nullptr
ListAssignChain(o, null) ==
    /\ ListLive
    /\ ls[o].state = "live"
    /\ null \/ ch_next <= MaxChains
    /\ LET addr == IF null THEN 0 ELSE ch_next
       IN  IF ls[o].list # addr
           THEN /\ ch_free' = Released(ch_free, ls[o].list)
                /\ ls' = [ls EXCEPT ![o].list = addr]
           ELSE UNCHANGED <<ls, ch_free>>
    /\ ch_next' = IF null THEN ch_next ELSE ch_next + 1
    /\ UNCHANGED <<object, adVars, dtVars, wkVars, pdVars, dpVars, baVars, pfVars, gdVars, abort, raised, handled, tqVars, plVars, tmVars,
                   rsVars, hdVars>>

\* ~service, ~networks: release()
ListDtor(o) ==
    /\ ListLive
    /\ ls[o].state = "live"
    /\ ch_free' = Released(ch_free, ls[o].list)
    /\ ls' = [ls EXCEPT ![o] = [state |-> "dead", list |-> 0]]
    /\ UNCHANGED <<object, adVars, dtVars, wkVars, pdVars, dpVars, baVars, pfVars, gdVars, abort, raised, handled, tqVars, plVars, tmVars,
                   rsVars, hdVars, ch_next>>

ListNext ==
    \/ \E o \in Owners : ListCtor(o)
    \/ \E o \in Owners : ListCtorChain(o)
    \/ \E o, from \in Owners : ListCtorMove(o, from)
    \/ \E o, from \in Owners : ListAssignMove(o, from)
    \/ \E o \in Owners : \E null \in BOOLEAN : ListAssignChain(o, null)
    \/ \E o \in Owners : ListDtor(o)

\* ========================================== group_scope and semaphore_scope
Guards == 1..MaxGuards

\* the program guards one wait_group with group_scope objects, or one
\* semaphore with semaphore_scope objects
GuardLive == object \in {"group_scope", "semaphore_scope"} /\ abort = "none"

\* the wait_group is constructed with any count, the semaphore with any
\* counter
GuardInit ==
    /\ gd = [g \in Guards |-> [state |-> "none", ptr |-> 0]]
    /\ gd_done = [g \in Guards |-> -1]
    /\ sy_init \in IF object \in {"group_scope", "semaphore_scope"}
                   THEN 0..MaxCount ELSE {0}
    /\ sy_count = sy_init

\* a release that decrements without the test for zero
ReleaseTarget_NoTest(count) ==
    IF object = "group_scope" THEN count - 1 ELSE count + 1

\* wait_group::release: nothing when count_ is 0, else --count_;
\* std::counting_semaphore::release: the counter goes up by one
ReleaseTarget(count) ==
    IF object = "group_scope"
    THEN IF count = 0 THEN 0 ELSE count - 1
    ELSE count + 1

\* an exchange that leaves the source as it was
ExchangeScope_Kept(ptr) == ptr

\* std::exchange(other.wg_, nullptr), std::exchange(other.sem_, nullptr):
\* what the source holds afterwards; 0 is the null pointer
ExchangeScope(ptr) == 0

\* group_scope(wg), semaphore_scope(sem): the guard holds the target for the
\* release it owes; the pointer is written as the guard that took it on
GuardCtor(g) ==
    /\ GuardLive
    /\ gd[g].state = "none"
    /\ gd' = [gd EXCEPT ![g] = [state |-> "live", ptr |-> g]]
    /\ gd_done' = [gd_done EXCEPT ![g] = 0]
    /\ UNCHANGED <<object, adVars, dtVars, wkVars, pdVars, dpVars, baVars, pfVars, abort, raised, handled, tqVars, plVars, tmVars,
                   rsVars, hdVars, lsVars, sy_init, sy_count>>

\* group_scope(group_scope&& other), semaphore_scope(semaphore_scope&& other)
GuardCtorMove(g, other) ==
    /\ GuardLive
    /\ gd[g].state = "none"
    /\ gd[other].state = "live"
    /\ gd' = [gd EXCEPT ![g] = [state |-> "live", ptr |-> gd[other].ptr],
                        ![other].ptr = ExchangeScope(gd[other].ptr)]
    /\ UNCHANGED <<object, adVars, dtVars, wkVars, pdVars, dpVars, baVars, pfVars, abort, raised, handled, tqVars, plVars, tmVars,
                   rsVars, hdVars, lsVars, gd_done, sy_init, sy_count>>

\* the private release() of a guard: the target's release() when the pointer
\* is not null
ScopeRelease(ptr) ==
    IF ptr # 0
    THEN /\ sy_count' = ReleaseTarget(sy_count)
         /\ gd_done' = [gd_done EXCEPT ![ptr] = @ + 1]
    ELSE UNCHANGED <<sy_count, gd_done>>

\* operator=(group_scope&& other), operator=(semaphore_scope&& other): nothing
\* when this == &other; else release(), then the pointer is taken
GuardAssignMove(g, other) ==
    /\ GuardLive
    /\ gd[g].state = "live"
    /\ gd[other].state = "live"
    /\ IF g = other
       THEN UNCHANGED <<gd, gd_done, sy_count>>
       ELSE /\ ScopeRelease(gd[g].ptr)
            /\ gd' = [gd EXCEPT ![g].ptr = gd[other].ptr,
                                ![other].ptr = ExchangeScope(gd[other].ptr)]
    /\ UNCHANGED <<object, adVars, dtVars, wkVars, pdVars, dpVars, baVars, pfVars, abort, raised, handled, tqVars, plVars, tmVars,
                   rsVars, hdVars, lsVars, sy_init>>

\* ~group_scope, ~semaphore_scope: release()
GuardDtor(g) ==
    /\ GuardLive
    /\ gd[g].state = "live"
    /\ ScopeRelease(gd[g].ptr)
    /\ gd' = [gd EXCEPT ![g] = [state |-> "dead", ptr |-> 0]]
    /\ UNCHANGED <<object, adVars, dtVars, wkVars, pdVars, dpVars, baVars, pfVars, abort, raised, handled, tqVars, plVars, tmVars,
                   rsVars, hdVars, lsVars, sy_init>>

GuardNext ==
    \/ \E g \in Guards : GuardCtor(g)
    \/ \E g, other \in Guards : GuardCtorMove(g, other)
    \/ \E g, other \in Guards : GuardAssignMove(g, other)
    \/ \E g \in Guards : GuardDtor(g)

\* ============================= thread::parallel_func and service::parallel
Min(a, b) == IF a < b THEN a ELSE b

\* the machines the program runs on differ in
\* std::thread::hardware_concurrency(), which is 0 when it is not known
ParallelInit ==
    /\ pf_hw \in IF object = "parallel" THEN 0..MaxCores ELSE {0}
    /\ pf_count = 0
    /\ pf_pc = "idle"
    /\ pf_threads = <<>>
    /\ pf_calls = 0

\* thread::concurrency(count)
Concurrency(count, hw) ==
    LET c == IF count = 0 THEN hw ELSE count
    IN  IF c = 0 THEN 1 ELSE Min(c, hw)

\* parallel_func(count, func) and service::parallel(count, task) up to the
\* joins: count = concurrency(count), then one thread per emplace_back
ParallelFunc(count) ==
    /\ Live("parallel")
    /\ pf_pc = "idle"
    /\ pf_count' = count
    /\ pf_threads' = [i \in 1..Concurrency(count, pf_hw) |-> "ready"]
    /\ pf_pc' = "join"
    /\ UNCHANGED <<object, adVars, dtVars, wkVars, pdVars, dpVars, baVars, abort, raised, handled, tqVars, plVars, tmVars,
                   rsVars, hdVars, lsVars, gdVars, pf_hw, pf_calls>>

\* a thread starts and invokes func
ThreadInvoke(i) ==
    /\ Live("parallel")
    /\ i \in 1..Len(pf_threads)
    /\ pf_threads[i] = "ready"
    /\ pf_threads' = [pf_threads EXCEPT ![i] = "run"]
    /\ pf_calls' = pf_calls + 1
    /\ UNCHANGED <<object, adVars, dtVars, wkVars, pdVars, dpVars, baVars, abort, raised, handled, tqVars, plVars, tmVars,
                   rsVars, hdVars, lsVars, gdVars, pf_hw, pf_count, pf_pc>>

\* func returns and the thread ends
ThreadReturn(i) ==
    /\ Live("parallel")
    /\ i \in 1..Len(pf_threads)
    /\ pf_threads[i] = "run"
    /\ pf_threads' = [pf_threads EXCEPT ![i] = "done"]
    /\ UNCHANGED <<object, adVars, dtVars, wkVars, pdVars, dpVars, baVars, abort, raised, handled, tqVars, plVars, tmVars,
                   rsVars, hdVars, lsVars, gdVars, pf_hw, pf_count, pf_pc,
                   pf_calls>>

\* the joins of every thread have returned, and the call returns
ParallelReturn ==
    /\ Live("parallel")
    /\ pf_pc = "join"
    /\ \A i \in 1..Len(pf_threads) : JoinReturns(IF pf_threads[i] = "done"
                                                 THEN "exited"
                                                 ELSE pf_threads[i])
    /\ pf_pc' = "returned"
    /\ UNCHANGED <<object, adVars, dtVars, wkVars, pdVars, dpVars, baVars, abort, raised, handled, tqVars, plVars, tmVars,
                   rsVars, hdVars, lsVars, gdVars, pf_hw, pf_count,
                   pf_threads, pf_calls>>

ParallelNext ==
    \/ \E count \in 0..MaxThreads : ParallelFunc(count)
    \/ \E i \in 1..MaxThreads : ThreadInvoke(i)
    \/ \E i \in 1..MaxThreads : ThreadReturn(i)
    \/ ParallelReturn

\* ================================= socket::address and busuto::bind_address
\* AF_UNSPEC, AF_INET and AF_INET6 of a caller, and AF_PACKET, the family
\* getifaddrs reports for the link-layer entry of an interface
Families == {"unspec", "inet", "inet6"}

IfaFamilies == {"inet", "inet6", "packet"}

IfaNames == {"lo", "eth0"}

\* the id strings of a caller: the two wildcards, literals of each syntax, an
\* IPv4-mapped literal, interface names, a name with a dot and a name with
\* a colon
Ids == {"*", "[*]", "127.0.0.1", "::1", "::ffff:127.0.0.1", "lo", "eth0",
        "eth0.1", "eth0:1"}

Ports == {0, 5060}

\* id.find('.') != npos
HasDot(id) == id \in {"127.0.0.1", "::ffff:127.0.0.1", "eth0.1"}

\* id.find(':') != npos
HasColon(id) == id \in {"::1", "::ffff:127.0.0.1", "eth0:1"}

\* inet_pton(AF_INET, s) == 1
Pton4(s) == s \in {"127.0.0.1"}

\* inet_pton(AF_INET6, s) == 1
Pton6(s) == s \in {"::1", "::ffff:127.0.0.1"}

\* one struct ifaddrs: ifa_name, the family and address of ifa_addr (family
\* "none" when ifa_addr is null) and IFF_MULTICAST of ifa_flags
IfaEntries ==
    [name : IfaNames, family : IfaFamilies \cup {"none"}, multicast : BOOLEAN]

IfaLists == UNION {[1..n -> IfaEntries] : n \in 0..MaxIfaces}

\* address_t any: the zeroed sockaddr_storage
AddressDefault == [family |-> "unspec", host |-> "any", port |-> 0]

\* throw error(what)
Raised(what) == [family |-> "error", host |-> what, port |-> 0]

\* address::family_if(changed)
FamilyIf(a, changed) ==
    IF a.family = "unspec" THEN [a EXCEPT !.family = changed] ELSE a

Port_Kept(a, value) == a

\* address::port(value)
Port(a, value) ==
    IF a.family \in {"inet", "inet6"}
    THEN [a EXCEPT !.port = value]
    ELSE Raised("unknown address type")

\* address::from_string(s, port)
FromString(s, port) ==
    IF s = "*" THEN Port([AddressDefault EXCEPT !.family = "inet"], port)
    ELSE IF s = "[*]"
    THEN Port([AddressDefault EXCEPT !.family = "inet6"], port)
    ELSE IF HasColon(s) /\ Pton6(s)
    THEN [family |-> "inet6", host |-> s, port |-> port]
    ELSE IF ~HasColon(s) /\ Pton4(s)
    THEN [family |-> "inet", host |-> s, port |-> port]
    ELSE Raised("invalid address format")

\* the family networks::find compares with the family asked for
IfaFamily(entry, family) ==
    IF family = "unspec" /\ entry.family \in {"inet", "inet6"}
    THEN "unspec"
    ELSE entry.family

\* the entries networks::find(id, family, multicast) returns at, in the
\* order of the list
Matches(nets, id, family, multicast) ==
    {i \in 1..Len(nets) :
        /\ ~(multicast /\ ~nets[i].multicast)
        /\ nets[i].family # "none"
        /\ id = nets[i].name
        /\ family = IfaFamily(nets[i], family)}

\* networks::find(id, family, multicast): the index of the first such
\* entry, 0 for nullptr
NetworksFind(nets, id, family, multicast) ==
    LET found == Matches(nets, id, family, multicast)
    IN  IF found = {} THEN 0
        ELSE CHOOSE i \in found : \A j \in found : i <= j

\* address(ifa->ifa_addr): assign copies a sockaddr of family AF_INET or
\* AF_INET6 and leaves the storage zeroed for a family it has no length for
AddressOf(entry) ==
    IF entry.family \in {"inet", "inet6"}
    THEN [family |-> entry.family, host |-> entry.name, port |-> 0]
    ELSE AddressDefault

\* busuto::bind_address(nets, id, port, family, multicast)
BindAddressOf(nets, id, port, family, multicast) ==
    IF id = "[*]" /\ family = "unspec"
    THEN Port(FamilyIf(AddressDefault, "inet6"), port)
    ELSE IF id = "*"
    THEN Port(FamilyIf(AddressDefault,
                       IF family = "unspec" THEN "inet" ELSE family), port)
    ELSE IF family \in {"inet", "unspec"} /\ HasDot(id)
    THEN FromString(id, port)
    ELSE IF family \in {"inet6", "unspec"} /\ HasColon(id)
    THEN FromString(id, port)
    ELSE LET ifa == NetworksFind(nets, id, family, multicast)
         IN  IF ifa # 0 THEN Port(AddressOf(nets[ifa]), port)
             ELSE AddressDefault

BindInit ==
    /\ ba_nets \in IF object = "bind_address" THEN IfaLists ELSE {<<>>}
    /\ ba_called = FALSE
    /\ ba_id = "*"
    /\ ba_port = 0
    /\ ba_family = "unspec"
    /\ ba_multicast = FALSE
    /\ ba_result = AddressDefault

\* the call of bind_address on the interface list of the machine
BindAddress(id, port, family, multicast) ==
    /\ Live("bind_address")
    /\ ~ba_called
    /\ ba_called' = TRUE
    /\ ba_id' = id
    /\ ba_port' = port
    /\ ba_family' = family
    /\ ba_multicast' = multicast
    /\ ba_result' = BindAddressOf(ba_nets, id, port, family, multicast)
    /\ UNCHANGED <<object, adVars, dtVars, wkVars, pdVars, dpVars, abort, raised, handled, tqVars, plVars, tmVars,
                   rsVars, hdVars, lsVars, gdVars, pfVars, ba_nets>>

BindNext ==
    \E id \in Ids, port \in Ports, family \in Families, multicast \in BOOLEAN :
        BindAddress(id, port, family, multicast)

\* ============================== tasks::dispatch, statement by statement
\* the threads that call dispatch concurrently
Callers == 1..MaxCallers

DispatchInit ==
    /\ dp = [c \in Callers |-> [pc |-> "idle", max |-> 0]]
    /\ dp_over = FALSE

\* a lock_guard that does not take the mutex
LockGuard_None(c) == 0

\* const std::lock_guard lock(mutex_): the holder of the mutex afterwards
LockGuard(c) == c + 1

\* dispatch(task, max) by caller c: the lock_guard is constructed once
\* mutex_ is free
DispatchLock(c, max) ==
    /\ Live("tasks")
    /\ dp[c].pc = "idle"
    /\ tq_next <= MaxTasks
    /\ tq_mutex = 0
    /\ tq_mutex' = LockGuard(c)
    /\ dp' = [dp EXCEPT ![c] = [pc |-> "test", max |-> max]]
    /\ UNCHANGED <<object, adVars, dtVars, wkVars, pdVars, abort, raised, handled, plVars, tmVars, rsVars,
                   hdVars, lsVars, gdVars, pfVars, baVars, dp_over,
                   tq_running, tq_tasks, tq_thread, tq_func, tq_notified,
                   tq_join, tq_next, tq_started, tq_front, tq_ahead,
                   tq_cleared, tq_stopped, tq_hooks, tq_last, tq_ret,
                   tq_down>>

\* if (!running_) return false; if (max && tasks_.size() >= max) return
\* false: a return destroys the lock_guard
DispatchTest(c) ==
    /\ Live("tasks")
    /\ dp[c].pc = "test"
    /\ IF DispatchAccepts(dp[c].max)
       THEN /\ dp' = [dp EXCEPT ![c].pc = "push"]
            /\ UNCHANGED <<tq_mutex, tq_ret>>
       ELSE /\ dp' = [dp EXCEPT ![c] = [pc |-> "idle", max |-> 0]]
            /\ tq_mutex' = 0
            /\ tq_ret' = "false"
    /\ UNCHANGED <<object, adVars, dtVars, wkVars, pdVars, abort, raised, handled, plVars, tmVars, rsVars,
                   hdVars, lsVars, gdVars, pfVars, baVars, dp_over,
                   tq_running, tq_tasks, tq_thread, tq_func, tq_notified,
                   tq_join, tq_next, tq_started, tq_front, tq_ahead,
                   tq_cleared, tq_stopped, tq_hooks, tq_last, tq_down>>

\* tasks_.push_back(task); cvar_.notify_one(); return true
DispatchPush(c) ==
    /\ Live("tasks")
    /\ dp[c].pc = "push"
    /\ tq_next <= MaxTasks
    /\ tq_tasks' = PushBack(tq_tasks, tq_next)
    /\ tq_next' = tq_next + 1
    /\ Notify
    /\ tq_mutex' = 0
    /\ tq_ret' = "true"
    /\ dp' = [dp EXCEPT ![c] = [pc |-> "idle", max |-> 0]]
    /\ dp_over' = (dp_over \/ (dp[c].max # 0 /\ Len(tq_tasks) >= dp[c].max))
    /\ UNCHANGED <<object, adVars, dtVars, wkVars, pdVars, abort, raised, handled, plVars, tmVars, rsVars,
                   hdVars, lsVars, gdVars, pfVars, baVars, tq_running,
                   tq_thread, tq_func, tq_join, tq_started, tq_front,
                   tq_ahead, tq_cleared, tq_stopped, tq_hooks, tq_last,
                   tq_down>>

\* a started task queue, its worker, and callers of dispatch with a limit
DispatchNext ==
    \/ TasksStartup
    \/ \E c \in Callers, max \in 1..MaxDepth : DispatchLock(c, max)
    \/ \E c \in Callers : DispatchTest(c)
    \/ \E c \in Callers : DispatchPush(c)
    \/ ProcessTop
    \/ ProcessWake
    \/ ProcessReturn

\* the queue is started, every caller goes on calling dispatch and every
\* call made runs to its return
DispatchFair ==
    /\ WF_vars(TasksStartup)
    /\ \A c \in Callers :
           /\ WF_vars(\E max \in 1..MaxDepth : DispatchLock(c, max))
           /\ WF_vars(DispatchTest(c))
           /\ WF_vars(DispatchPush(c))

\* ========================= timer::periodic: the first deadline of an entry
\* a count of milliseconds of the value ms + carry * 2^32: the 64-bit rep of
\* std::chrono::milliseconds holds both terms
Millis(carry, ms) == [carry |-> carry, ms |-> ms]

\* a - b in uint32_t: the result is a - b + 2^32 when b > a
Uint32Minus(a, b) == IF a >= b THEN Millis(0, a - b) ELSE Millis(1, a - b)

\* periodic(uint32_t period, task, uint32_t shorten): expires
Periodic32Expires(now, period, shorten) ==
    LET d == Uint32Minus(period, shorten)
    IN  Millis(d.carry, now + d.ms)

\* periodic(const period_t& period, task, const period_t& shorten): expires
PeriodicExpires(now, period, shorten) == Millis(0, now + period - shorten)

PeriodicInit ==
    /\ pd_now \in IF object = "periodic" THEN 0..MaxTime ELSE {0}
    /\ pd_period \in IF object = "periodic" THEN 0..MaxMillis ELSE {0}
    /\ pd_shorten \in IF object = "periodic" THEN 0..MaxMillis ELSE {0}
    /\ pd_expires = [o \in {"uint32_t", "period_t"} |->
                        [armed |-> FALSE, at |-> Millis(0, 0)]]

\* a call of one of the two overloads at the instant pd_now: the deadline
\* the entry is emplaced with
Periodic(overload) ==
    /\ Live("periodic")
    /\ ~pd_expires[overload].armed
    /\ pd_expires' =
           [pd_expires EXCEPT ![overload] =
               [armed |-> TRUE,
                at |-> IF overload = "uint32_t"
                       THEN Periodic32Expires(pd_now, pd_period, pd_shorten)
                       ELSE PeriodicExpires(pd_now, pd_period, pd_shorten)]]
    /\ UNCHANGED <<object, adVars, dtVars, wkVars, abort, raised, handled, tqVars, plVars, tmVars,
                   rsVars, hdVars, lsVars, gdVars, pfVars, baVars, dpVars,
                   pd_now, pd_period, pd_shorten>>

PeriodicNext == \E overload \in {"uint32_t", "period_t"} : Periodic(overload)

\* ================================================================= address
\* socket::address (sockets.hpp): a sockaddr_storage and the two comparison
\* operators. The storage is the family field followed by bytes; the lengths
\* are counted in cells, the family field being the first cell.
SaFamilies == {"AF_UNSPEC", "AF_INET", "AF_INET6", "AF_UNIX"}

\* socket::addrlen: sizeof(sockaddr_in) < sizeof(sockaddr_in6) <
\* sizeof(sockaddr_un), and 0 for every other family
Addrlen(family) ==
    IF family = "AF_INET" THEN 2
    ELSE IF family = "AF_INET6" THEN 3
    ELSE IF family = "AF_UNIX" THEN 4
    ELSE 0

\* the values of struct sockaddr_storage: every byte can be set, by
\* address(const storage_t&) or by the address copied in
Storages ==
    [ss_family : SaFamilies,
     bytes : [1..(Addrlen("AF_UNIX") - 1) -> 0..MaxByte]]

\* address::size
AddressSize(a) == Addrlen(a.ss_family)

\* memcmp(&a, &b, len) == 0: the first len cells are equal
Memcmp0(a, b, len) ==
    \/ len = 0
    \/ /\ a.ss_family = b.ss_family
       /\ \A i \in 1..(len - 1) : a.bytes[i] = b.bytes[i]

\* address::operator==
OperatorEq(a, b) ==
    IF AddressSize(a) # AddressSize(b) THEN FALSE
    ELSE Memcmp0(a, b, AddressSize(a))

\* address::operator!=
OperatorNe(a, b) ==
    IF AddressSize(a) # AddressSize(b) THEN FALSE
    ELSE ~Memcmp0(a, b, AddressSize(a))

Bool(b) == IF b THEN "true" ELSE "false"

AddressInit ==
    /\ ad_a \in IF object = "address" THEN Storages
                ELSE {[ss_family |-> "AF_UNSPEC",
                       bytes |-> [i \in 1..(Addrlen("AF_UNIX") - 1) |-> 0]]}
    /\ ad_b \in IF object = "address" THEN Storages
                ELSE {[ss_family |-> "AF_UNSPEC",
                       bytes |-> [i \in 1..(Addrlen("AF_UNIX") - 1) |-> 0]]}
    /\ ad_eq = "none"
    /\ ad_ne = "none"

\* a == b
AddressEq ==
    /\ Live("address")
    /\ ad_eq = "none"
    /\ ad_eq' = Bool(OperatorEq(ad_a, ad_b))
    /\ UNCHANGED <<object, dtVars, wkVars, pdVars, dpVars, baVars, pfVars, gdVars, lsVars, abort, raised, handled, tqVars, plVars, tmVars,
                   rsVars, hdVars, ad_a, ad_b, ad_ne>>

\* a != b
AddressNe ==
    /\ Live("address")
    /\ ad_ne = "none"
    /\ ad_ne' = Bool(OperatorNe(ad_a, ad_b))
    /\ UNCHANGED <<object, dtVars, wkVars, pdVars, dpVars, baVars, pfVars, gdVars, lsVars, abort, raised, handled, tqVars, plVars, tmVars,
                   rsVars, hdVars, ad_a, ad_b, ad_eq>>

AddressNext == AddressEq \/ AddressNe

\* ========================================================== specifications
\* the structure a program uses; the values a program draws at its start
\* are drawn for the structure that reads them
Objects ==
    {"tasks", "timer", "pool", "resolver", "handle", "service", "networks",
     "group_scope", "semaphore_scope", "parallel", "bind_address",
     "periodic", "address"}

Init0 ==
    /\ object \in Objects
    /\ abort = "none"
    /\ raised = 0
    /\ handled = 0
    /\ TasksInit
    /\ PoolInit
    /\ TimerInit
    /\ ResolverInit
    /\ HandleInit
    /\ ListInit
    /\ GuardInit
    /\ ParallelInit
    /\ BindInit
    /\ DispatchInit
    /\ PeriodicInit
    /\ AddressInit

\* a program that runs one task queue
InitTasks == Init0 /\ object = "tasks"

TasksSpec == InitTasks /\ [][TasksNext]_vars

DispatchSpec == InitTasks /\ [][DispatchNext]_vars /\ DispatchFair

\* a program that runs one worker pool
InitPool == Init0 /\ object = "pool"

PoolSpec == InitPool /\ [][PoolNext]_vars

\* a program that runs one timer engine
InitTimer == Init0 /\ object = "timer"

TimerSpec == InitTimer /\ [][TimerNext]_vars

\* a program that runs one timer engine and changes its entries in place
TimerOpsSpec == InitTimer /\ [][TimerOpsNext]_vars

\* a program that runs one timer engine with periodic entries and ends their
\* repetition with finish(), under a fair scheduler
FinishSpec == InitTimer /\ [][FinishNext]_vars /\ FinishFair

\* the timer engine with calls of shutdown(), under fair scheduling
TimerDownSpec == InitTimer /\ [][TimerDownNext]_vars /\ TimerDownFair

\* the timer engine with periodic entries of different periods
PeriodsSpec == InitTimer /\ [][PeriodsNext]_vars

DtorSpec == InitTimer /\ [][DtorNext]_vars

\* a program that owns descriptors through handle_t objects
InitHandle == Init0 /\ object = "handle"

HandleSpec == InitHandle /\ [][HandleNext]_vars

\* a program that owns resolved-address lists or interface lists
InitList == Init0 /\ object \in {"service", "networks"}

ListSpec == InitList /\ [][ListNext]_vars

\* a program that guards a wait_group or a semaphore
InitGuard == Init0 /\ object \in {"group_scope", "semaphore_scope"}

GuardSpec == InitGuard /\ [][GuardNext]_vars

\* a program that calls parallel_func or service::parallel once
InitParallel == Init0 /\ object = "parallel"

ParallelSpec == InitParallel /\ [][ParallelNext]_vars

\* a program that calls bind_address on the interface list of its machine
InitBind == Init0 /\ object = "bind_address"

BindSpec == InitBind /\ [][BindNext]_vars

\* a program that arms a periodic entry through both overloads
InitPeriodic == Init0 /\ object = "periodic"

PeriodicSpec == InitPeriodic /\ [][PeriodicNext]_vars

InitAddress == Init0 /\ object = "address"

AddressSpec == InitAddress /\ [][AddressNext]_vars

\* a program that runs a task queue or a timer engine: the two structures
\* with a configured error handler
Init == Init0 /\ object \in {"tasks", "timer"}

Next == TasksNext \/ TimerNext

Spec == Init /\ [][Next]_vars

\* a started task queue or timer engine that is handed work and is not shut
\* down, cleared or cancelled
WakeNext ==
    \/ TasksStartup
    \/ TasksDispatch(0)
    \/ TasksPriority
    \/ ProcessTop
    \/ ProcessWake
    \/ ProcessReturn
    \/ Tick
    \/ TimerStartup
    \/ \E expires \in 0..MaxTime : TimerAt(expires)
    \/ RunStartup
    \/ RunTop
    \/ RunWake
    \/ RunWakeUntil
    \/ RunInvoke
    \/ RunReturn

\* the worker threads run whenever they can and callbacks return; a wait on
\* a condition variable ends when it was notified, and cond_.wait_until also
\* when its deadline has passed: the idle timeout of the task queue never
\* expires and no wait ends spuriously
WakeFair ==
    /\ WF_vars(ProcessTop)
    /\ WF_vars(tq_notified /\ ProcessWake)
    /\ WF_vars(ProcessReturn)
    /\ WF_vars(RunStartup)
    /\ WF_vars(RunTop)
    /\ WF_vars(tm_notified /\ RunWake)
    /\ WF_vars((tm_notified \/ tm_until <= tm_now) /\ RunWakeUntil)
    /\ WF_vars(RunInvoke)
    /\ WF_vars(RunReturn)

WakeSpec == Init /\ [][WakeNext]_vars /\ WakeFair

\* a task queue or a timer engine that any number of threads shut down:
\* shutdown() is also called while an earlier call waits in join()
DownNext == TasksNext \/ TasksShutdownAgain \/ TimerDownNext

DownSpec == Init /\ [][DownNext]_vars

\* a program that resolves names and addresses through async_resolver
InitResolver == Init0 /\ object = "resolver"

ResolverSpec == InitResolver /\ [][ResolverNext]_vars

\* a program that runs any one of the three structures
InitService == Init0 /\ object \in {"tasks", "timer", "pool"}

ServiceNext == TasksNext \/ TimerNext \/ PoolNext

ServiceSpec == InitService /\ [][ServiceNext]_vars

\* ================================================================== claims
\* C1: whatever the pool size and the interleaving of the workers, no task
\* accepted by pool::dispatch is started twice, and once drain() (shutdown())
\* has returned every accepted task was started exactly once and has finished.
C1_PoolRunsEachTaskOnce ==
    /\ \A t \in 1..MaxTasks : pl_runs[t] <= 1
    /\ ~pl_started =>
           \A t \in 1..(pl_next - 1) : pl_runs[t] = 1 /\ t \in pl_done

C1_Witness ==
    /\ ~pl_started
    /\ pl_next > 2
    /\ pl_done = 1..(pl_next - 1)

\* C2: while only dispatch() was used (no priority(), no clear()), the worker
\* has started the accepted tasks in the order dispatch() accepted them: the
\* i-th task started is the i-th task accepted.
C2_DispatchIsFifo ==
    (tq_front = {} /\ tq_cleared = {}) =>
        \A i \in 1..Len(tq_started) : tq_started[i] = i

C2_Witness ==
    /\ tq_front = {}
    /\ tq_cleared = {}
    /\ Len(tq_started) >= 2
    /\ tq_tasks # <<>>

\* C3: priority() is accepted whenever the queue runs, whatever its depth;
\* the task it takes stands in the queue before every task that was queued at
\* that moment, and none of those starts before it.
C3_PriorityGoesFirst ==
    /\ (Live("tasks") /\ tq_running /\ tq_next <= MaxTasks) => ENABLED TasksPriority
    /\ \A pair \in tq_ahead :
           LET p == pair[1]
               t == pair[2]
           IN  /\ (p \in Range(tq_tasks) /\ t \in Range(tq_tasks)) =>
                      Index(tq_tasks, p) < Index(tq_tasks, t)
               /\ t \in Range(tq_started) =>
                      /\ p \in Range(tq_started)
                      /\ Index(tq_started, p) < Index(tq_started, t)

C3_Witness ==
    /\ Len(tq_started) >= 2
    /\ <<tq_started[1], tq_started[2]>> \in tq_ahead
    /\ Cardinality({t \in 1..MaxTasks : <<tq_started[1], t>> \in tq_ahead})
           >= MaxDepth

\* C4: whenever the timer worker pops an entry to fire it, no entry in the
\* collection at that moment has a strictly earlier deadline.
C4_PopsEarliestDeadline ==
    [][(tm_thread' = "popped" /\ tm_thread # "popped") =>
           \A i \in 1..Len(tm_timers) : tm_item'[1].at <= tm_timers[i].at]_vars

C4_Witness ==
    /\ tm_thread = "popped"
    /\ tm_timers # <<>>
    /\ tm_item[1].id > tm_timers[1].id
    /\ tm_item[1].at < tm_timers[1].at

\* the step in which the worker pops a periodic entry
PopsPeriodic == tm_thread' = "popped" /\ tm_thread # "popped" /\ tm_item'[1].period # 0

\* the deadline the popped entry was re-inserted with
RearmedAt == tm_timers'[Find(tm_timers', tm_item'[1].id)].at

\* C5 as stated: a periodic entry popped late is re-armed relative to the
\* current time, so it is not due again at once.
C5_RearmsFromNow ==
    [][PopsPeriodic => RearmedAt = tm_now + tm_item'[1].period]_vars

\* C5 amended: a periodic entry popped late is re-armed relative to the
\* deadline it missed (deadline + period); when it was missed by a period or
\* more the re-armed deadline is already due, so it fires again back-to-back.
C5_RearmsFromDeadline ==
    [][PopsPeriodic =>
           /\ RearmedAt = tm_item'[1].at + tm_item'[1].period
           /\ tm_now - tm_item'[1].at >= tm_item'[1].period =>
                  RearmedAt <= tm_now]_vars

C5_Witness ==
    /\ tm_thread = "call"
    /\ tm_item[1].period # 0
    /\ tm_now - tm_item[1].at >= 2 * tm_item[1].period
    /\ Find(tm_timers, tm_item[1].id) # 0
    /\ tm_timers[Find(tm_timers, tm_item[1].id)].at <= tm_now

C7_StoppedTasksNeverStart == tq_stopped \cap Range(tq_started) = {}

\* C8: a shutdown() that found the queue running returns only after the
\* worker thread has exited and was joined; by then the worker has run the
\* shutdown hook exactly once, to completion, as the last thing it ran.
C8_ShutdownReturnsAfterHook ==
    [][((tq_join /\ ~tq_join') \/ (tq_running /\ ~tq_running' /\ ~tq_join')) =>
           /\ tq_thread' = "none"
           /\ tq_hooks' = 1
           /\ tq_last' = "hook"]_vars

C8_Witness ==
    /\ ~tq_running
    /\ ~tq_join
    /\ tq_thread = "none"
    /\ tq_hooks = 1
    /\ tq_last = "hook"
    /\ tq_started # <<>>

\* exceptions caught and not yet handed to the error handler
Pending ==
    (IF tq_thread = "caught" THEN 1 ELSE 0) + (IF tm_thread = "caught" THEN 1 ELSE 0)

C10_PoolCatchesExceptions == object = "pool" => abort # "uncaught exception"

\* C11: while a task of the task queue, a callback of the timer engine, a
\* task of the worker pool or an error handler runs, the worker that runs it
\* does not hold the mutex of its structure; a call from the callback to
\* dispatch() or priority(), to a scheduling call or cancel() of the timer, or
\* to the pool's dispatch() on the same structure takes the mutex and goes
\* through.
C11_CallbacksRunUnlocked ==
    /\ (Live("tasks") /\ tq_thread \in {"run", "caught"}) =>
           /\ tq_mutex # 1
           /\ (tq_running /\ tq_next <= MaxTasks) =>
                  (ENABLED TasksDispatch(0) /\ ENABLED TasksPriority)
    /\ (Live("timer") /\ tm_thread \in {"call", "caught"}) =>
           /\ tm_lock # 1
           /\ tm_next < MaxTimers => ENABLED TimerOnce(0)
           /\ \A tid \in TimerIds :
                  Find(tm_timers, tid) # 0 => ENABLED TimerCancel(tid)
    /\ \A w \in 1..Len(pl_workers) :
           (Live("pool") /\ pl_workers[w] = "run") =>
               /\ pl_mutex # w
               /\ (pl_accepting /\ pl_next <= MaxTasks) => ENABLED PoolDispatch

C11_Witness ==
    /\ Live("timer")
    /\ tm_thread = "caught"
    /\ tm_lock = 0
    /\ tm_item[1].period # 0
    /\ Find(tm_timers, tm_item[1].id) # 0
    /\ ENABLED TimerCancel(tm_item[1].id)
    /\ tm_next < MaxTimers

\* the calls whose lookup was launched and has not completed
Resolving == {c \in Calls : rs_call[c].pc = "lookup"}

\* C12: at every moment the free permits plus the resolutions that obtained
\* a permit and have not completed make up the capacity, so at most capacity
\* resolutions run at once; a call that obtained a permit has given it back
\* exactly once when its lookup has completed, found or not, and not before.
C12_PermitsAreConserved ==
    /\ resolvers + Cardinality(Resolving) = BUSUTO_RESOLVER_COUNT
    /\ resolvers >= 0
    /\ Cardinality(Resolving) <= BUSUTO_RESOLVER_COUNT
    /\ \A c \in Calls :
           rs_released[c] =
               IF rs_call[c].pc \in {"resolved", "empty"} THEN 1 ELSE 0

C12_Witness ==
    /\ resolvers = 0
    /\ Cardinality(Resolving) = BUSUTO_RESOLVER_COUNT
    /\ \E c \in Calls : rs_call[c].pc = "empty" /\ rs_released[c] = 1

\* C13: a call of async_resolver with timeout == 0 made when no permit is
\* free throws resolver_timeout at once: it does not block, launches no
\* lookup and leaves the permit count as it was; made when a permit is free
\* (one was released), it takes the permit and launches the lookup.
C13_ZeroTimeoutFailsAtOnce ==
    [][\A c \in Calls :
           AsyncResolver(c, 0) =>
               IF resolvers = 0
               THEN /\ rs_call'[c].pc = "timeout"
                    /\ resolvers' = resolvers
                    /\ Resolving' = Resolving
               ELSE /\ rs_call'[c].pc = "lookup"
                    /\ resolvers' = resolvers - 1]_vars

C13_Witness ==
    /\ resolvers = 0
    /\ \E c \in Calls : rs_call[c].pc = "timeout" /\ rs_call[c].timeout = 0

\* a step in which dispatch(task, max) was called and returned
DispatchCalled(max) == TasksDispatch(max) \/ TasksDispatchRefused(max)

\* a step in which priority(task) was called and returned
PriorityCalled == TasksPriority \/ TasksPriorityRefused

\* C15: the queue does not run before the first startup() and from
\* shutdown() on; a dispatch() or priority() called while it does not run
\* returns false and leaves the queue as it was, and one that returns true
\* was called while the queue ran and has put the task into the queue.
C15_RefusedWhenNotRunning ==
    /\ []((tq_thread = "none" \/ tq_join) => ~tq_running)
    /\ [][/\ \A max \in 0..MaxDepth :
              DispatchCalled(max) =>
                  /\ ~tq_running => (tq_ret' = "false" /\ tq_tasks' = tq_tasks)
                  /\ tq_ret' = "true" =>
                         (tq_running /\ tq_tasks' = tq_tasks \o <<tq_next>>)
          /\ PriorityCalled =>
                  /\ ~tq_running => (tq_ret' = "false" /\ tq_tasks' = tq_tasks)
                  /\ tq_ret' = "true" =>
                         (tq_running /\ tq_tasks' = <<tq_next>> \o tq_tasks)]_vars

C15_Witness ==
    /\ tq_ret = "false"
    /\ ~tq_running
    /\ tq_thread = "none"
    /\ tq_hooks = 1
    /\ tq_tasks # <<>>

\* C16: with the queue running, dispatch(task, N) with N > 0 returns false
\* and leaves the queue as it was when N or more tasks are queued and not
\* started; otherwise, and always with N == 0, it puts the task at the back
\* and returns true.
C16_DepthLimit ==
    [][\A max \in 0..MaxDepth :
           (DispatchCalled(max) /\ tq_running) =>
               IF max > 0 /\ Len(tq_tasks) >= max
               THEN tq_ret' = "false" /\ tq_tasks' = tq_tasks
               ELSE tq_ret' = "true" /\ tq_tasks' = tq_tasks \o <<tq_next>>]_vars

C16_Witness ==
    /\ tq_ret = "false"
    /\ tq_running
    /\ tq_thread = "run"
    /\ Len(tq_tasks) = MaxDepth

\* a step in which the pool's dispatch(task) was called and returned
PoolDispatchCalled == PoolDispatch \/ PoolDispatchRefused

\* C17: the pool does not accept while it is not started, it stops accepting
\* in the step in which drain() (shutdown()) begins, and only start() makes
\* it accept again; a dispatch() called while it does not accept returns
\* false and queues nothing, and one that returns true was called while the
\* pool accepted and has put the task into the queue.
C17_PoolRefusedWhenNotAccepting ==
    /\ [](~pl_started => ~pl_accepting)
    /\ [][/\ PoolDrain => ~pl_accepting'
          /\ (~pl_accepting /\ pl_accepting') =>
                 \E count \in 1..MaxWorkers : PoolStart(count)
          /\ PoolDispatchCalled =>
                 /\ ~pl_accepting => (pl_ret' = "false" /\ pl_tasks' = pl_tasks)
                 /\ pl_ret' = "true" =>
                        (pl_accepting /\ pl_tasks' = pl_tasks \o <<pl_next>>)]_vars

C17_Witness ==
    /\ pl_ret = "false"
    /\ pl_join
    /\ pl_tasks # <<>>
    /\ \E w \in 1..Len(pl_workers) : pl_workers[w] = "run"

\* C14: the ids returned by at(), once() and periodic() are strictly
\* increasing in call order, hence pairwise distinct: an id is not returned
\* again after its entry was cancelled, fired, cleared, reset or refreshed,
\* and reset() and refresh() keep the id of the entry they emplace again.
C14_IdsNeverReused ==
    /\ \A i, j \in 1..Len(tm_handed) : i < j => tm_handed[i] < tm_handed[j]
    /\ \A i \in 1..Len(tm_timers) : tm_timers[i].id \in Range(tm_handed)
    /\ \A i, j \in 1..Len(tm_timers) :
           i # j => tm_timers[i].id # tm_timers[j].id
    /\ \A i \in 1..Len(tm_handed) : tm_handed[i] < tm_next

C14_Witness ==
    /\ Len(tm_handed) = MaxTimers
    /\ ~Contains(tm_handed[1])
    /\ tm_fired[tm_handed[1]] >= 1
    /\ Contains(tm_handed[MaxTimers])
    /\ tm_ret = "true"
    /\ tm_cancelled = {}

\* a step in which cancel(tid) was called and returned
CancelCalled(tid) == TimerCancel(tid) \/ TimerCancelRefused(tid)

\* C18: cancel(id) on a present id returns true and removes that entry and
\* no other: contains(id) is false afterwards, size() is one less and the
\* other entries are as they were, in their order; on an absent id it returns
\* false and the collection is as it was.
C18_CancelRemovesOne ==
    [][\A tid \in TimerIds :
           CancelCalled(tid) =>
               IF Contains(tid)
               THEN /\ tm_ret' = "true"
                    /\ ~Contains(tid)'
                    /\ Size' = Size - 1
                    /\ tm_timers' = SelectSeq(tm_timers, LAMBDA e : e.id # tid)
               ELSE /\ tm_ret' = "false"
                    /\ tm_timers' = tm_timers]_vars

C18_Witness ==
    /\ tm_ret = "true"
    /\ [id |-> 1, popped |-> FALSE] \in tm_cancelled
    /\ Size = 1
    /\ Contains(0)
    /\ tm_fired[1] = 0

\* a step in which finish(tid) was called and returned
FinishCalled(tid) == TimerFinish(tid) \/ TimerFinishRefused(tid)

\* the entry with this id is in the collection with period zero
Finished(id) == Contains(id) /\ tm_timers[Find(tm_timers, id)].period = 0

RefreshCalled(tid) == TimerRefresh(tid) \/ TimerRefreshRefused(tid)

\* C20 as stated: refresh(id) emplaces the entry again at now + period when
\* it is present, periodic and its deadline has not passed, and returns true;
\* it does not re-arm an entry whose deadline has passed; for a present entry
\* with period zero and for an absent id it returns false and leaves the
\* collection as it was.
C20_RefreshRearms ==
    [][\A tid \in TimerIds :
           RefreshCalled(tid) =>
               IF ~Contains(tid) \/ Finished(tid)
               THEN tm_ret' = "false" /\ tm_timers' = tm_timers
               ELSE LET e == tm_timers[Find(tm_timers, tid)]
                    IN  IF e.at > tm_now
                        THEN /\ abort' = "none"
                             /\ tm_ret' = "true"
                             /\ Contains(tid)'
                             /\ tm_timers'[Find(tm_timers', tid)] =
                                    [e EXCEPT !.at = tm_now + e.period]
                        ELSE ~(/\ Contains(tid)'
                               /\ tm_timers'[Find(tm_timers', tid)].at =
                                      tm_now + e.period)]_vars

\* a step in which reset(tid, offset, interval) was called and returned
ResetCalled(tid, offset, interval) ==
    TimerReset(tid, offset, interval) \/ TimerResetRefused(tid)

\* C21 as stated: reset(id, offset, interval) on a present id returns true and
\* leaves exactly one entry with that id, at now + offset, with period
\* interval when interval is not zero and the previous period otherwise, with
\* size() unchanged and the other entries as they were; on an absent id it
\* returns false and the collection is as it was.
C21_ResetRedeadlines ==
    [][\A tid \in TimerIds : \A offset \in {MaxPeriod} :
           \A interval \in {0, MaxPeriod} :
               ResetCalled(tid, offset, interval) =>
                   IF Contains(tid)
                   THEN LET e == tm_timers[Find(tm_timers, tid)]
                        IN  /\ abort' = "none"
                            /\ tm_ret' = "true"
                            /\ Size' = Size
                            /\ Cardinality({i \in 1..Len(tm_timers') :
                                               tm_timers'[i].id = tid}) = 1
                            /\ tm_timers'[Find(tm_timers', tid)] =
                                   [at |-> tm_now + offset, id |-> tid,
                                    period |-> IF interval # 0 THEN interval
                                               ELSE e.period]
                            /\ SelectSeq(tm_timers', LAMBDA x : x.id # tid) =
                                   SelectSeq(tm_timers, LAMBDA x : x.id # tid)
                   ELSE /\ tm_ret' = "false"
                        /\ tm_timers' = tm_timers]_vars

\* C22: the first call of shutdown() sets stop_ and, when there is a worker
\* thread, stays in join() until the thread function has returned; fair
\* scheduling brings the worker out of its wait and the call to its return.
\* A later call finds stop_ set and returns with the engine as it was.  Once
\* stop_ is set it stays set, and after the first call has returned no entry
\* is popped and no callback is invoked, also by a worker started afterwards.
C22_ShutdownIsIdempotent ==
    /\ [][/\ TimerShutdown => (tm_stop' /\ (tm_thread # "none" => tm_join'))
          /\ (tm_join /\ ~tm_join') => tm_thread = "exited"
          /\ tm_stop => tm_stop'
          /\ (tm_down' # tm_down) =>
                 /\ tm_stop
                 /\ UNCHANGED <<tm_timers, tm_stop, tm_next, tm_thread,
                                tm_item, tm_join, tm_fired, tm_lock>>
          /\ (tm_stop /\ ~tm_join) =>
                 /\ tm_fired' = tm_fired
                 /\ tm_item' = tm_item
                 /\ tm_thread' \notin {"popped", "call"}]_vars
    /\ tm_join ~> (~tm_join /\ tm_thread = "none")

C22_Witness ==
    /\ tm_stop
    /\ ~tm_join
    /\ tm_thread = "none"
    /\ tm_down = MaxAgain
    /\ tm_timers # <<>>
    /\ \E i \in TimerIds : tm_fired[i] >= 1

\* C23: of two periodic entries scheduled at the same instant, the one with
\* the shorter period has been invoked at least as often as the other, in
\* every state, whichever was scheduled first and whenever the worker was
\* started.
C23_ShorterPeriodFiresMore ==
    \A a, b \in 1..Len(tm_timers) :
        tm_timers[a].period < tm_timers[b].period =>
            tm_fired[tm_timers[a].id] >= tm_fired[tm_timers[b].id]

C23_Witness ==
    /\ Len(tm_timers) = 2
    /\ tm_handed = <<0, 1>>
    /\ tm_timers[Find(tm_timers, 0)].period >
           tm_timers[Find(tm_timers, 1)].period
    /\ tm_fired[0] >= 2
    /\ tm_fired[1] > tm_fired[0]

\* how often the teardown function was invoked on descriptor d
Exits(d) == Len(SelectSeq(fd_log[d], LAMBDA e : e.op = "exit"))

\* the Handles that hold descriptor d
Holders(d) == {h \in Handles : hd[h].state = "live" /\ hd[h].handle = d}

\* C24: the teardown function has run once on a descriptor whose Handle was
\* closed, reassigned or destroyed while it held the descriptor, and never on
\* any other: not on a descriptor taken out with release(), not on one a
\* Handle still holds.  A descriptor is held by one Handle at a time, so a
\* moved-from Handle holds -1; a step tears a descriptor down only when the
\* Handle that held it lets go of it, with that Handle's teardown function,
\* and close(), release() and destruction of a Handle that holds -1 invoke
\* nothing.  When every Handle is destroyed no descriptor is still held.
C24_TeardownRunsOnce ==
    /\ [](\A d \in Fds :
              /\ Exits(d) = IF fd[d].state = "torn" THEN 1 ELSE 0
              /\ Cardinality(Holders(d)) = IF fd[d].state = "held" THEN 1 ELSE 0)
    /\ [][/\ \A d \in Fds :
                 Exits(d)' # Exits(d) =>
                     \E h \in Holders(d) :
                         /\ hd'[h].handle # d
                         /\ fd_log'[d][Len(fd_log'[d])] =
                                [op |-> "exit", arg |-> hd[h].exit]
          /\ \A h \in Handles :
                 (/\ hd[h].handle = -1
                  /\ HandleClose(h) \/ HandleDtor(h) \/ HandleRelease(h)) =>
                     fd_log' = fd_log
          /\ \A h \in Handles : HandleRelease(h) => fd_log' = fd_log]_vars

C24_Witness ==
    /\ \A h \in Handles : hd[h].state = "dead"
    /\ fd[0].state = "released"
    /\ fd[3].state = "torn"
    /\ fd_rec[3].type = "SOCKET"
    /\ fd_log[3] = <<[op |-> "exit", arg |-> "close"]>>

\* C25 as stated: when a Handle lets go of an armed descriptor by close(),
\* reassignment or destruction, the calls made on the descriptor are the
\* step of the kind recorded when the descriptor was acquired (for a socket
\* shutdown() with the how of the recorded access mode, for a terminal
\* tcsetattr() with the mode saved at acquisition, for any other kind
\* nothing) and then the teardown function, in this order.
C25_KindStepThenTeardown ==
    [][\A d \in Fds :
           fd_log'[d] # fd_log[d] =>
               \E fn \in CloseFns :
                   fd_log'[d] =
                       fd_log[d]
                           \o KindStep(fd_rec[d].type, fd_rec[d].access,
                                       fd_rec[d].restore)
                           \o <<[op |-> "exit", arg |-> fn]>>]_vars

\* the owners that hold chain c
ChainOwners(c) == {o \in Owners : ls[o].state = "live" /\ ls[o].list = c}

\* C26: a chain the system returned is held by one owner until it is freed,
\* and it is freed once, with the free call of its class, when its owner is
\* destroyed or assigned over; a moved-from owner holds nothing and frees
\* nothing, self-assignment frees nothing, and when every owner is destroyed
\* every chain has been freed once.
C26_ChainsFreedOnce ==
    /\ [](\A c \in Chains :
              /\ Len(ch_free[c]) <= 1
              /\ ch_free[c] # <<>> => ch_free[c] = <<FreeCall>>
              /\ c < ch_next =>
                     Cardinality(ChainOwners(c)) =
                         IF ch_free[c] = <<>> THEN 1 ELSE 0
              /\ c >= ch_next => ChainOwners(c) = {} /\ ch_free[c] = <<>>)
    /\ [][/\ \A o, from \in Owners :
                 (ListCtorMove(o, from) \/ ListAssignMove(o, from)) =>
                     /\ o # from => ls'[from].list = 0
                     /\ o = from => UNCHANGED <<ls, ch_free>>
                     /\ ls[o].list = 0 => ch_free' = ch_free
          /\ \A o \in Owners :
                 (ListDtor(o) /\ ls[o].list = 0) => ch_free' = ch_free]_vars

C26_Witness ==
    /\ ls[1] = [state |-> "live", list |-> 0]
    /\ ls[2] = [state |-> "live", list |-> 1]
    /\ \A o \in Owners \ {1, 2} : ls[o].state = "dead"
    /\ ch_next = MaxChains + 1
    /\ \A c \in Chains \ {1} : ch_free[c] = <<FreeCall>>

\* the guards that hold the release guard g took on
Carriers(g) == {c \in Guards : gd[c].state = "live" /\ gd[c].ptr = g}

\* the releases taken on by constructed guards and performed
Performed == {g \in Guards : gd_done[g] = 1}

\* the release a constructed guard took on is performed once, when the guard
\* that carries it is destroyed or assigned over, and until then one guard
\* carries it; a moved-from guard carries nothing and performs nothing
GuardReleasesOnce ==
    /\ [](\A g \in Guards :
              /\ gd_done[g] <= 1
              /\ gd_done[g] = -1 => Carriers(g) = {}
              /\ gd_done[g] >= 0 =>
                     Cardinality(Carriers(g)) = 1 - gd_done[g])
    /\ [][\A g, other \in Guards :
              /\ (GuardCtorMove(g, other) \/ GuardAssignMove(g, other)) =>
                     /\ g # other => gd'[other].ptr = 0
                     /\ g = other => UNCHANGED <<gd, gd_done, sy_count>>
              /\ ((GuardDtor(g) \/ GuardAssignMove(g, other)) /\ gd[g].ptr = 0)
                     => UNCHANGED <<gd_done, sy_count>>]_vars

\* the wait_group was guarded once and the scope has ended
GuardedOnceAfter ==
    /\ object = "group_scope"
    /\ Cardinality({g \in Guards : gd_done[g] = 1}) = 1
    /\ \A g \in Guards : Carriers(g) = {}

\* C27 as stated: every guard release happens once, and a wait_group of
\* count n guarded once has count n inside the scope and n - 1 after it.
C27_ScopeReleasesOnce ==
    /\ GuardReleasesOnce
    /\ [](object = "group_scope" /\ Performed = {} => sy_count = sy_init)
    /\ [](GuardedOnceAfter => sy_count = sy_init - 1)

\* C27 amended: every guard release happens once; a wait_group of count n
\* has count n while no release was performed, and after k guard releases
\* count n - k, or 0 when n < k: guarded once, n - 1 when n > 0 and 0 when n
\* is 0.  A semaphore's counter is up by one for each guard release.
C27_ScopeReleasesOnceOrStaysZero ==
    /\ GuardReleasesOnce
    /\ [](object = "group_scope" =>
              sy_count = IF sy_init >= Cardinality(Performed)
                         THEN sy_init - Cardinality(Performed)
                         ELSE 0)
    /\ [](GuardedOnceAfter =>
              sy_count = IF sy_init > 0 THEN sy_init - 1 ELSE 0)
    /\ [](object = "semaphore_scope" =>
              sy_count = sy_init + Cardinality(Performed))

C27_Witness ==
    /\ GuardedOnceAfter
    /\ sy_init = 0
    /\ sy_count = 0
    /\ \E g \in Guards : gd[g].state = "dead" /\ gd_done[g] = -1

\* C28 as stated: a call with count > 0 has, when it returns, invoked func
\* count times, once on each of count threads, and every invocation has
\* completed, on a machine of any hardware concurrency.
C28_ParallelRunsCountTimes ==
    (pf_pc = "returned" /\ pf_count > 0) =>
        /\ pf_calls = pf_count
        /\ Len(pf_threads) = pf_count
        /\ \A i \in 1..Len(pf_threads) : pf_threads[i] = "done"

\* ---------------------------------------------------------------------- C29
\* the step of the rule list the arguments of the call select
BindStep ==
    IF ba_id = "[*]" /\ ba_family = "unspec" THEN 1
    ELSE IF ba_id = "*" THEN 2
    ELSE IF ba_family \in {"inet", "unspec"} /\ HasDot(ba_id) THEN 3
    ELSE IF ba_family \in {"inet6", "unspec"} /\ HasColon(ba_id) THEN 4
    ELSE IF NetworksFind(ba_nets, ba_id, ba_family, ba_multicast) # 0 THEN 5
    ELSE 6

Wildcard(family) == [family |-> family, host |-> "any", port |-> ba_port]

Literal4 ==
    IF Pton4(ba_id) THEN [family |-> "inet", host |-> ba_id, port |-> ba_port]
    ELSE Raised("invalid address format")

Literal6 ==
    IF Pton6(ba_id) THEN [family |-> "inet6", host |-> ba_id, port |-> ba_port]
    ELSE Raised("invalid address format")

\* steps 1, 2, 4 and 5 of the rule list
BindSteps1245 ==
    /\ BindStep = 1 => ba_result = Wildcard("inet6")
    /\ BindStep = 2 =>
           ba_result = Wildcard(IF ba_family = "unspec" THEN "inet"
                                ELSE ba_family)
    /\ BindStep = 4 => ba_result = Literal6
    /\ BindStep = 5 =>
           LET ifa == ba_nets[NetworksFind(ba_nets, ba_id, ba_family,
                                           ba_multicast)]
           IN  ba_result = [family |-> ifa.family, host |-> ifa.name,
                            port |-> ba_port]

\* C29: bind_address returns the result of the six-step rule list applied in
\* order: the IPv6 wildcard with the port for "[*]" and family any, the
\* wildcard of the family (IPv4 when any) with the port for "*", the parsed
\* IPv4 literal for an id with '.' and family IPv4 or any, the parsed IPv6
\* literal for an id with ':' and family IPv6 or any, the address of the
\* interface of that name with the port overwritten, and otherwise the
\* IPv4-any wildcard
C29_BindFollowsRuleList ==
    ba_called =>
        /\ BindSteps1245
        /\ BindStep = 3 => ba_result = Literal4
        /\ BindStep = 6 =>
               ba_result.family = "inet" /\ ba_result.host = "any"

\* C29, amended: as above, but step 3 parses an id that also contains ':' as
\* an IPv6 literal, and the fallback is the default address, of unspecified
\* family and port 0
C29_BindFollowsCodedRules ==
    ba_called =>
        /\ BindSteps1245
        /\ BindStep = 3 =>
               ba_result = IF HasColon(ba_id) THEN Literal6 ELSE Literal4
        /\ BindStep = 6 => ba_result = AddressDefault

\* bind_address fell back for a name that is no interface of a machine
\* that has interfaces, and was given a port
C29_Witness ==
    /\ ba_called
    /\ BindStep = 6
    /\ ba_port # 0
    /\ ba_nets # <<>>
    /\ ba_result.family = "unspec"

\* ---------------------------------------------------------------------- C30
\* a call of tasks::shutdown returns: from join(), without a join, or at
\* the test of running_
TasksShutdownReturns ==
    \/ tq_join /\ ~tq_join'
    \/ tq_running /\ ~tq_running' /\ ~tq_join'
    \/ tq_down' # tq_down

\* a call of timer::shutdown returns: from join(), without a join, or at
\* the test of stop_
TimerShutdownReturns ==
    \/ tm_join /\ ~tm_join'
    \/ ~tm_stop /\ tm_stop' /\ ~tm_join'
    \/ tm_down' # tm_down

\* C30: every call of shutdown() on a task queue or a timer engine returns
\* only after the worker thread has exited and while no callback of the
\* structure runs, also when several threads call shutdown() concurrently
C30_ShutdownReturnsAfterExit ==
    [][/\ TasksShutdownReturns => tq_thread' \in {"none", "exited"}
       /\ TimerShutdownReturns => tm_thread' \in {"none", "exited"}]_vars

\* ---------------------------------------------------------------------- C31
\* tasks::startup constructs a worker thread
WorkerSpawned ==
    \/ ~tq_running /\ tq_running'
    \/ abort = "none" /\ abort' = "joinable thread assigned"

\* C31: a task queue has at most one live worker thread: for any
\* interleaving of startup() and shutdown() calls, a new worker is spawned
\* only when the previous worker has exited and has been joined
C31_OneLiveWorker ==
    [][WorkerSpawned => tq_thread = "none"]_vars

\* ---------------------------------------------------------------------- C32
\* C32: the capacity check of dispatch and the push are not one atomic
\* step: under concurrent dispatch(task, N) calls, a push is made onto N or
\* more queued tasks, and the queue holds more than the cap N
C32_CapExceededUnderLoad == <>dp_over

\* C32, amended: the capacity check and the push are one atomic step under
\* the mutex of the queue: at most one caller is between the construction
\* of the lock_guard and the return, the worker pops no task meanwhile, and
\* every push of dispatch(task, N) is made onto fewer than N queued tasks
C32_CheckAndPushAtomic ==
    /\ [](~dp_over)
    /\ [](Cardinality({c \in Callers : dp[c].pc # "idle"}) <= 1)
    /\ [][\A c \in Callers :
             dp[c].pc = "push" =>
                 /\ Len(tq_tasks) < dp[c].max
                 /\ Len(tq_tasks') >= Len(tq_tasks)]_vars

\* a dispatch was refused at a limit that queued tasks had reached, while
\* the worker ran a task and another caller waited for the mutex
C32_Witness ==
    /\ tq_ret = "false"
    /\ tq_running
    /\ tq_thread = "run"
    /\ tq_tasks # <<>>
    /\ tq_next <= MaxTasks
    /\ \A c \in Callers : dp[c].pc = "idle"

\* ---------------------------------------------------------------------- C33
\* C33: when the worker pops a periodic entry with deadline d and period p,
\* it re-inserts the entry, with the same id, period and callback, at
\* deadline exactly d + p, and does so before the callback runs: the step
\* that pops leaves every other entry alone and invokes nothing
C33_ReinsertedBeforeCallback ==
    [][PopsPeriodic =>
           LET item == tm_timers[1]
               back == [item EXCEPT !.at = item.at + item.period]
           IN  /\ tm_item' = <<item>>
               /\ Len(tm_timers') = Len(tm_timers)
               /\ \E i \in 1..Len(tm_timers') :
                      /\ tm_timers'[i] = back
                      /\ Erase(tm_timers', i) = Erase(tm_timers, 1)
               /\ tm_fired' = tm_fired]_vars

\* a periodic entry that has fired before was popped again on time, and is
\* back in the collection for a later instant while its callback has not
\* started
C33_Witness ==
    /\ tm_thread = "popped"
    /\ tm_item[1].period # 0
    /\ tm_fired[tm_item[1].id] >= 1
    /\ tm_item[1].at = tm_now
    /\ \E i \in 1..Len(tm_timers) :
           /\ tm_timers[i].id = tm_item[1].id
           /\ tm_timers[i].at = tm_now + tm_item[1].period

\* ---------------------------------------------------------------------- C34
\* C34: periodic(period, task, shorten) arms the first fire at
\* now + period - shorten for every period and shorten in both overloads:
\* the uint32_t overload yields the deadline of the duration overload, also
\* when shorten > period
C34_FirstFireSameInBothOverloads ==
    /\ \A o \in {"uint32_t", "period_t"} :
           pd_expires[o].armed =>
               pd_expires[o].at = Millis(0, pd_now + pd_period - pd_shorten)
    /\ (pd_expires["uint32_t"].armed /\ pd_expires["period_t"].armed) =>
           pd_expires["uint32_t"].at = pd_expires["period_t"].at

\* ---------------------------------------------------------------------- C35
\* C35: a callback of the timer engine is never invoked before the deadline
\* of its entry: every fire happens at an instant greater than or equal to
\* the deadline the entry carried when the worker popped it
C35_NeverBeforeDeadline ==
    /\ [](tm_thread \in {"popped", "call"} => tm_item[1].at <= tm_now)
    /\ [][\A i \in TimerIds :
             tm_fired'[i] # tm_fired[i] =>
                 tm_item[1].id = i /\ tm_item[1].at <= tm_now']_vars

\* the callback of a one-shot entry scheduled for a later instant runs at
\* that very instant
C35_Witness ==
    /\ tm_thread = "call"
    /\ tm_item[1].period = 0
    /\ tm_item[1].at = tm_now
    /\ tm_now > 0
    /\ tm_fired[tm_item[1].id] = 1

\* ---------------------------------------------------------------------- C36
\* C36: no wake-up is lost: every task a running task queue accepted is
\* eventually started, also when the idle timeout never expires, and every
\* entry on a running timer engine fires once its deadline has passed, also
\* when it was scheduled for an earlier deadline than the one the worker
\* waits on; callbacks return and no shutdown, clear or cancel intervenes
C36_NoLostWakeup ==
    /\ \A t \in 1..MaxTasks :
           (tq_running /\ t \in Range(tq_tasks)) ~> (t \in Range(tq_started))
    /\ \A i \in TimerIds :
           (/\ tm_thread # "none"
            /\ Find(tm_timers, i) # 0
            /\ tm_timers[Find(tm_timers, i)].at <= tm_now) ~> (tm_fired[i] > 0)

\* the worker waits for a deadline, and an entry scheduled since for an
\* earlier deadline is due
C36_Witness ==
    /\ tm_thread = "until"
    /\ tm_notified
    /\ tm_timers[1].at < tm_until
    /\ tm_timers[1].at <= tm_now
    /\ tm_until > tm_now

\* ---------------------------------------------------------------------- C37
\* C37: for any sequence of startup() and shutdown() calls on a timer engine
\* followed by its destruction, every worker thread the engine started has
\* exited and has been joined when the destructor finishes: no thread is
\* left joinable
C37_DtorLeavesNoThread ==
    /\ tm_dead = "destroyed" => tm_thread = "none"
    /\ abort # "joinable thread destroyed"

\* ---------------------------------------------------------------------- C38
\* C38: refresh(id) never adds or removes an entry: size() and contains(id)
\* have the same values before and after any refresh(id) call, whatever it
\* returns
C38_RefreshKeepsEntries ==
    [][\A tid \in TimerIds :
           RefreshCalled(tid) =>
               /\ Size' = Size
               /\ Contains(tid)' = Contains(tid)]_vars

\* ---------------------------------------------------------------------- C39
\* C39: the kind and the access mode a Handle recorded for its descriptor
\* follow the descriptor through move construction and move assignment: the
\* Handle that receives an armed descriptor holds the kind and access mode
\* of its source, and its close() would make the calls the source's close()
\* would have made
C39_KindFollowsMove ==
    [][\A h, from \in Handles :
           (/\ h # from
            /\ hd[from].handle > -1
            /\ HandleCtorMove(h, from) \/ HandleAssignMove(h, from)) =>
               /\ hd'[h].type = hd[from].type
               /\ hd'[h].access = hd[from].access
               /\ CloseCalls(hd'[h]) = CloseCalls(hd[from])]_vars

\* ---------------------------------------------------------------------- C40
\* C40: for all addresses a and b, a != b is the negation of a == b, where
\* a == b holds exactly when both have the same family-determined length and
\* equal bytes over that length; two addresses of different families compare
\* unequal
C40_NotEqualNegatesEqual ==
    (ad_eq # "none" /\ ad_ne # "none") =>
        /\ ad_ne = Bool(ad_eq = "false")
        /\ ad_eq = Bool(/\ AddressSize(ad_a) = AddressSize(ad_b)
                        /\ Memcmp0(ad_a, ad_b, AddressSize(ad_a)))
        /\ ad_a.ss_family # ad_b.ss_family =>
               ad_eq = "false" /\ ad_ne = "true"

====
